---- MODULE Spec2Model ----
(***************************************************************************)
(* A model of the BibTeX merge-and-deduplicate stage                       *)
(* (Screening/Python/Unique.py), of the type injection of Add_type.py, of  *)
(* the record splitter and value decoder of Keywords.py and of the field   *)
(* query of Screening.py.  Text is modelled character by character:        *)
(* a string is a sequence of one-character strings.  Characters outside    *)
(* ASCII are written by their code point, e.g. "U+00E9" for e-acute.       *)
(* Scans over a text are written as comprehensions over its indices rather *)
(* than as recursions, so that their evaluation depth does not grow with   *)
(* the length of the text, and an intermediate value is named with Let, so *)
(* that it is computed once.                                               *)
(***************************************************************************)
EXTENDS Integers, Sequences, FiniteSets, TLC

\* ------------------------------------------------------------------------
\* Characters and character classes (Python's str / re semantics)
\* ------------------------------------------------------------------------

\* the absent value (Python's None): a sequence no string is equal to
None == << "None" >>

LowerCase ==
  << "a","b","c","d","e","f","g","h","i","j","k","l","m",
     "n","o","p","q","r","s","t","u","v","w","x","y","z" >>

UpperCase ==
  << "A","B","C","D","E","F","G","H","I","J","K","L","M",
     "N","O","P","Q","R","S","T","U","V","W","X","Y","Z" >>

LowerSet == { LowerCase[i] : i \in 1..Len(LowerCase) }

UpperSet == { UpperCase[i] : i \in 1..Len(UpperCase) }

Digits == { "0","1","2","3","4","5","6","7","8","9" }

HexDigits == Digits \cup { "a","b","c","d","e","f","A","B","C","D","E","F" }

\* \s of the re module, for the characters the model uses
WhiteSpace == { " ", "\t", "\n", "\r" }

\* the letters outside ASCII that the model uses: e-acute
NonAsciiLetters == { "U+00E9" }

IsSpace(c) == c \in WhiteSpace

IsDigit(c) == c \in Digits

\* [a-zA-Z]
IsAlpha(c) == c \in LowerSet \/ c \in UpperSet

\* \w of the re module on str: letters, digits and the underscore
IsWord(c) == IsAlpha(c) \/ IsDigit(c) \/ c = "_" \/ c \in NonAsciiLetters

\* str.lower() on one character
LowerChar(c) ==
  IF c \in UpperSet
    THEN LowerCase[CHOOSE i \in 1..Len(UpperCase) : UpperCase[i] = c]
    ELSE c

\* str.lower()
Lower(s) == [i \in 1..Len(s) |-> LowerChar(s[i])]

\* ------------------------------------------------------------------------
\* String helpers (str methods and the regular-expression primitives)
\* ------------------------------------------------------------------------

\* F applied to the value of v: "LET x == v IN F(x)" with v computed once
Let(v, F(_)) == CHOOSE r \in { F(x) : x \in { v } } : TRUE

Min(S) == CHOOSE x \in S : \A y \in S : x <= y

Max(S) == CHOOSE x \in S : \A y \in S : x >= y

\* the least index of a set of indices, 0 for the empty set
First(S) == IF S = {} THEN 0 ELSE Min(S)

\* the greatest index of a set of indices, 0 for the empty set
Last(S) == IF S = {} THEN 0 ELSE Max(S)

\* s[i:] with a 1-based index
From(s, i) == SubSeq(s, i, Len(s))

\* the concatenation of the strings ss[lo], ..., ss[hi]
RECURSIVE ConcatRange(_, _, _)
ConcatRange(ss, lo, hi) ==
  IF lo > hi THEN << >>
  ELSE IF lo = hi THEN ss[lo]
  ELSE ConcatRange(ss, lo, (lo + hi) \div 2)
         \o ConcatRange(ss, (lo + hi) \div 2 + 1, hi)

\* the concatenation of a sequence of strings
Concat(ss) == Let(ss, LAMBDA v : ConcatRange(v, 1, Len(v)))

\* pat occurs in s at the 1-based index i
MatchAt(s, pat, i) ==
  /\ i >= 1
  /\ i + Len(pat) - 1 <= Len(s)
  /\ \A k \in 1..Len(pat) : s[i + k - 1] = pat[k]

\* the same, ignoring case (re.I)
MatchAtI(s, pat, i) ==
  /\ i >= 1
  /\ i + Len(pat) - 1 <= Len(s)
  /\ \A k \in 1..Len(pat) : LowerChar(s[i + k - 1]) = LowerChar(pat[k])

\* the end (exclusive) of the longest run of characters of class In that
\* starts at index i: where In* stops
RunEnd(s, i, In(_)) ==
  Min({ k \in i..Len(s) : ~In(s[k]) }
        \cup { IF i > Len(s) THEN i ELSE Len(s) + 1 })

\* where \s* starting at index i stops
SkipSpace(s, i) == RunEnd(s, i, IsSpace)

\* the index of the first occurrence of character c at or after i, 0 if none
\* (str.find / str.index)
FindChar(s, c, i) == First({ k \in i..Len(s) : s[k] = c })

\* the index of the last occurrence of character c, 0 if none (str.rfind)
RFindChar(s, c) == Last({ k \in 1..Len(s) : s[k] = c })

\* str.rstrip(chars)
RStripChars(s, chars) ==
  SubSeq(s, 1, Last({ k \in 1..Len(s) : s[k] \notin chars }))

\* str.strip()
Strip(s) ==
  Let({ k \in 1..Len(s) : ~IsSpace(s[k]) }, LAMBDA keep :
    IF keep = {} THEN << >> ELSE SubSeq(s, Min(keep), Max(keep)))

\* str.replace(c, '') for one character c
RemoveChar(s, c) == SelectSeq(s, LAMBDA x : x # c)

\* ------------------------------------------------------------------------
\* Text normalization (_norm_text and the library calls it makes)
\* ------------------------------------------------------------------------

\* characters a named character reference may consist of:
\* [^\t\n\f <&#;] in html.unescape's pattern
IsNameChar(c) == c \notin { "\t", "\n", " ", "<", "&", "#", ";" }

\* the number of characters the character reference at the "&" of index i
\* takes, 0 when there is none.  The references that can be written with the
\* letters l and t: "&lt" and "&lt;" are "<", "&ll;" is the much-less-than
\* sign, and a longer name that starts with "lt" is "<" followed by the rest
\* of the name.  e is where the name ends
EntityLen(s, i) ==
  Let(RunEnd(s, i + 1, IsNameChar), LAMBDA e :
    IF MatchAt(s, << "l", "t" >>, i + 1)
      THEN IF e = i + 3 /\ e <= Len(s) /\ s[e] = ";" THEN 4 ELSE 3
    ELSE IF MatchAt(s, << "l", "l", ";" >>, i + 1) /\ e = i + 3 THEN 4
    ELSE 0)

\* the character the reference at index i denotes
EntityChar(s, i) == IF s[i + 2] = "t" THEN "<" ELSE "U+226A"

\* html.unescape
html_unescape(s) ==
  Let({ i \in 1..Len(s) : s[i] = "&" /\ EntityLen(s, i) > 0 }, LAMBDA refs :
    IF refs = {} THEN s
    ELSE Concat([j \in 1..Len(s) |->
           IF j \in refs THEN << EntityChar(s, j) >>
           ELSE IF \E i \in refs : i < j /\ j < i + EntityLen(s, i) THEN << >>
           ELSE << s[j] >>]))

\* the value of one hexadecimal digit
HexVal(c) ==
  IF c \in Digits THEN CHOOSE n \in 0..9 : ToString(n) = c
  ELSE CHOOSE n \in 10..15 :
         LowerChar(c) = << "a","b","c","d","e","f" >>[n - 9]

\* the character with code n, for the codes the percent escapes of the
\* model's texts denote (their hexadecimal digits are 2 and 6)
AsciiChar(n) ==
  CASE n = 34  -> "\""
    [] n = 38  -> "&"
    [] n = 98  -> "b"
    [] n = 102 -> "f"

\* urllib.parse.unquote: "%XX" with two hexadecimal digits is the character
\* with that code, any other "%" is left as it is
unquote(s) ==
  Let({ i \in 1..(Len(s) - 2) :
          s[i] = "%" /\ s[i + 1] \in HexDigits /\ s[i + 2] \in HexDigits },
      LAMBDA escs :
    IF escs = {} THEN s
    ELSE Concat([j \in 1..Len(s) |->
           IF j \in escs
             THEN << AsciiChar(16 * HexVal(s[j + 1]) + HexVal(s[j + 2])) >>
           ELSE IF (j - 1) \in escs \/ (j - 2) \in escs THEN << >>
           ELSE << s[j] >>]))

\* re.sub(r'\{|\}', '', s)
RemoveBraces(s) == SelectSeq(s, LAMBDA c : c \notin { "{", "}" })

\* re.sub(r'<[^>]*>', ' ', s): a character is inside a tag when a "<" at or
\* before it is followed by its first ">" at or after the character; the
\* tag's ">" becomes the space
RemoveTags(s) ==
  Let({ i \in 1..Len(s) : s[i] = "<" /\ FindChar(s, ">", i + 1) # 0 },
      LAMBDA opens :
    IF opens = {} THEN s
    ELSE Concat([j \in 1..Len(s) |->
           IF \A i \in opens : ~(i <= j /\ j <= FindChar(s, ">", i + 1))
             THEN << s[j] >>
           ELSE IF s[j] = ">" THEN << " " >>
           ELSE << >>]))

\* the end (exclusive) of the run of ASCII letters starting at i
AlphaEnd(s, i) == RunEnd(s, i, IsAlpha)

\* the end (exclusive) of an optional argument \{[^{}]*\} starting at i:
\* i itself when there is none
BracedArgEnd(s, i) ==
  IF i <= Len(s) /\ s[i] = "{"
    THEN Let(FindChar(s, "}", i + 1), LAMBDA c :
           IF c # 0 /\ \A k \in (i + 1)..(c - 1) : s[k] # "{" THEN c + 1 ELSE i)
    ELSE i

\* the end (exclusive) of the command \\[a-zA-Z]+(\{[^{}]*\})? at index i
CommandEnd(s, i) == BracedArgEnd(s, AlphaEnd(s, i + 1))

\* re.sub(r'\\[a-zA-Z]+(\{[^{}]*\})?', ' ', s): a backslash followed by a
\* letter starts a command unless it lies inside an earlier one; the
\* command's backslash becomes the space
RemoveCommands(s) ==
  Let({ i \in 1..(Len(s) - 1) : s[i] = "\\" /\ IsAlpha(s[i + 1]) },
      LAMBDA cmds :
    IF cmds = {} THEN s
    ELSE Concat([j \in 1..Len(s) |->
           IF \E i \in cmds : i < j /\ j < CommandEnd(s, i) THEN << >>
           ELSE IF j \in cmds THEN << " " >>
           ELSE << s[j] >>]))

\* s.replace('\\' + c, c)
ReplaceEscaped(s, c) ==
  Let({ j \in 1..(Len(s) - 1) : s[j] = "\\" /\ s[j + 1] = c }, LAMBDA drop :
    IF drop = {} THEN s
    ELSE Concat([j \in 1..Len(s) |-> IF j \in drop THEN << >> ELSE << s[j] >>]))

_strip_latex(s) ==
  ReplaceEscaped(ReplaceEscaped(ReplaceEscaped(RemoveCommands(s), "&"), "/"), "%")

\* unicodedata.normalize('NFKD', c) for one character: e-acute decomposes to
\* e and the combining acute accent, the fullwidth braces to the ASCII braces
NFKD(c) ==
  CASE c = "U+00E9" -> << "e", "U+0301" >>
    [] c = "U+FF5B" -> << "{" >>
    [] c = "U+FF5D" -> << "}" >>
    [] OTHER        -> << c >>

\* unicodedata.combining(c) != 0
IsCombining(c) == c = "U+0301"

_fold_accents(s) ==
  SelectSeq(Concat([i \in 1..Len(s) |-> NFKD(s[i])]), LAMBDA c : ~IsCombining(c))

\* the character class of the substitution of line 128
Punctuation ==
  { ".", ",", ";", ":", "-", "U+2013", "U+2014", "(", ")", "[", "]", "\"",
    "'", "U+0060", "U+00B4", "U+2019", "U+201C", "U+201D", "/", "\\", "_", "~",
    "!", "?", "|", "+", "&", "^", "%", "$", "#", "@", "*", "=", "<", ">" }

\* re.sub(r'[...]', ' ', s)
ReplacePunctuation(s) ==
  [i \in 1..Len(s) |-> IF s[i] \in Punctuation THEN " " ELSE s[i]]

\* re.sub(r'\s+', ' ', s): the first character of a run of white space
\* becomes the space
CollapseSpace(s) ==
  Concat([j \in 1..Len(s) |->
    IF ~IsSpace(s[j]) THEN << s[j] >>
    ELSE IF j = 1 \/ ~IsSpace(s[j - 1]) THEN << " " >>
    ELSE << >>])

\* a faulty _norm_text: the letters are not lowercased (line 127 left out)
norm_text_keep_case(s) ==
  IF s = None THEN << >>
  ELSE Strip(CollapseSpace(ReplacePunctuation(_fold_accents(
         _strip_latex(RemoveTags(RemoveBraces(unquote(html_unescape(s)))))))))

_norm_text(s) ==
  IF s = None THEN << >>
  ELSE Strip(CollapseSpace(ReplacePunctuation(Lower(_fold_accents(
         _strip_latex(RemoveTags(RemoveBraces(unquote(html_unescape(s))))))))))

\* ------------------------------------------------------------------------
\* Identifier normalization (_normalize_doi, DOI_RE)
\* ------------------------------------------------------------------------

\* \b between s[i - 1] and s[i]
WordBoundary(s, i) ==
  (i > 1 /\ IsWord(s[i - 1])) # (i <= Len(s) /\ IsWord(s[i]))

\* the end (exclusive) of the run of digits starting at i
DigitEnd(s, i) == RunEnd(s, i, IsDigit)

\* the end (exclusive) of the run of non-white-space starting at i
NonSpaceEnd(s, i) == RunEnd(s, i, LAMBDA c : ~IsSpace(c))

\* the largest e in lo..hi with a word boundary before s[e], 0 if none:
\* where the greedy \S+ followed by \b ends
LastBoundary(s, lo, hi) == Last({ e \in lo..hi : WordBoundary(s, e) })

\* DOI_RE = \b10\.\d{4,9}/\S+\b matched at index p: the end (exclusive) of
\* the match, 0 when there is none.  d is where the digits end
DoiMatchEnd(s, p) ==
  IF ~(WordBoundary(s, p) /\ MatchAt(s, << "1", "0", "." >>, p)) THEN 0
  ELSE Let(DigitEnd(s, p + 3), LAMBDA d :
         IF ~(d - (p + 3) >= 4 /\ d - (p + 3) <= 9 /\ d <= Len(s) /\ s[d] = "/")
           THEN 0
           ELSE LastBoundary(s, d + 2, NonSpaceEnd(s, d + 1)))

\* DOI_RE.search(s): the index of the leftmost match at or after p, 0 if none
DoiSearch(s, p) ==
  First({ k \in p..Len(s) : s[k] = "1" /\ DoiMatchEnd(s, k) # 0 })

\* [^?\s]
IsUrlChar(c) == ~IsSpace(c) /\ c # "?"

\* the end (exclusive) of the run of [^?\s] starting at i
UrlCharEnd(s, i) == RunEnd(s, i, IsUrlChar)

DoiOrg == << "d", "o", "i", ".", "o", "r", "g", "/" >>

\* re.search(r'(?:https?://)?(?:dx\.)?doi\.org/([^?\s]+)', s, re.I): the
\* index where group 1 starts, 0 when there is no match
ResolverSearch(s, q) ==
  Let(First({ k \in q..(Len(s) - 8) : MatchAtI(s, DoiOrg, k) /\ IsUrlChar(s[k + 8]) }),
      LAMBDA k : IF k = 0 THEN 0 ELSE k + 8)

\* where (https?://)? matched at index 1 ends (exclusive)
SchemeEnd(s) ==
  IF MatchAt(s, << "h","t","t","p","s",":","/","/" >>, 1) THEN 9
  ELSE IF MatchAt(s, << "h","t","t","p",":","/","/" >>, 1) THEN 8
  ELSE 1

\* re.sub(r'^(https?://)?(dx\.)?doi\.org/', '', s)
StripResolver(s) ==
  Let(IF MatchAt(s, << "d", "x", "." >>, SchemeEnd(s))
        THEN SchemeEnd(s) + 3 ELSE SchemeEnd(s),
      LAMBDA i : IF MatchAt(s, DoiOrg, i) THEN From(s, i + 8) ELSE s)

\* re.sub(r'^\s*doi:\s*', '', s)
StripDoiPrefix(s) ==
  Let(SkipSpace(s, 1), LAMBDA j :
    IF MatchAt(s, << "d", "o", "i", ":" >>, j)
      THEN From(s, SkipSpace(s, j + 4))
      ELSE s)

\* lines 145-154: the DOI-shaped token of r if there is one, else the group
\* of the resolver form if there is one, else r itself
DoiCandidate(r) ==
  Let(DoiSearch(r, 1), LAMBDA p :
    IF p # 0 THEN SubSeq(r, p, DoiMatchEnd(r, p) - 1)
    ELSE Let(ResolverSearch(r, 1), LAMBDA q :
           IF q # 0 THEN SubSeq(r, q, UrlCharEnd(r, q) - 1) ELSE r))

_normalize_doi(raw) ==
  IF raw = None \/ raw = << >> THEN None
  ELSE Let(RemoveChar(StripDoiPrefix(StripResolver(
             RStripChars(Lower(Strip(DoiCandidate(unquote(html_unescape(raw))))),
                         { " ", ".", ";", "," }))), " "),
           LAMBDA doi : IF DoiMatchEnd(doi, 1) # 0 THEN doi ELSE None)

\* ------------------------------------------------------------------------
\* Field lookup (get_field)
\* ------------------------------------------------------------------------

\* (?m)^\s* can end right before s[f]: only white space lies between a line
\* start and f
AtLineStart(s, f) ==
  Let(Last({ k \in 1..(f - 1) : ~IsSpace(s[k]) }), LAMBDA ink :
    ink = 0 \/ \E k \in (ink + 1)..(f - 1) : s[k] = "\n")

\* where \s*=\s* matched at index i ends (exclusive), 0 when it does not match
EqualsEnd(s, i) ==
  Let(SkipSpace(s, i), LAMBDA e :
    IF e <= Len(s) /\ s[e] = "=" THEN SkipSpace(s, e + 1) ELSE 0)

\* the index of the opening delimiter open when
\* (?im)^\s*field\s*=\s*<open> matches with the field name at f, else 0
FieldOpenAt(s, field, open, f) ==
  IF ~(MatchAtI(s, field, f) /\ AtLineStart(s, f)) THEN 0
  ELSE Let(EqualsEnd(s, f + Len(field)), LAMBDA o :
         IF o # 0 /\ o <= Len(s) /\ s[o] = open THEN o ELSE 0)

\* the index of the first closing delimiter after that opening delimiter,
\* 0 when there is no match at f
FieldCloseAt(s, field, open, close, f) ==
  Let(FieldOpenAt(s, field, open, f), LAMBDA o :
    IF o = 0 THEN 0 ELSE FindChar(s, close, o + 1))

\* re.search(rf'(?im)^\s*{field}\s*=\s*<open>(.*?)<close>\s*,?', s, re.S):
\* group 1 of the leftmost match whose field name is at or after f, None
\* when there is no match
FieldSearch(s, field, open, close, f) ==
  Let(First({ k \in f..Len(s) : FieldCloseAt(s, field, open, close, k) # 0 }),
      LAMBDA k :
    IF k = 0 THEN None
    ELSE SubSeq(s, FieldOpenAt(s, field, open, k) + 1,
                FieldCloseAt(s, field, open, close, k) - 1))

get_field(entry_text, field) ==
  Let(FieldSearch(entry_text, field, "{", "}", 1), LAMBDA b :
    IF b # None THEN Strip(b)
    ELSE Let(FieldSearch(entry_text, field, "\"", "\"", 1), LAMBDA q :
           IF q # None THEN Strip(q) ELSE None))

\* a faulty _find_normalized_doi: the url field is not consulted
find_doi_field_only(entry_text) ==
  _normalize_doi(get_field(entry_text, << "d", "o", "i" >>))

_find_normalized_doi(entry_text) ==
  Let(_normalize_doi(get_field(entry_text, << "d", "o", "i" >>)),
      LAMBDA doi_field :
    IF doi_field # None THEN doi_field
    ELSE _normalize_doi(get_field(entry_text, << "u", "r", "l" >>)))

\* ------------------------------------------------------------------------
\* Tokenizer (extract_entries, ENTRY_START_RE)
\* ------------------------------------------------------------------------

\* ENTRY_START_RE = @(?P<type>[A-Za-z]+)\s*\{ matched at index p: the index
\* of the opening brace, 0 when there is no match
EntryStartAt(text, p) ==
  IF ~(p <= Len(text) /\ text[p] = "@" /\ AlphaEnd(text, p + 1) > p + 1) THEN 0
  ELSE Let(SkipSpace(text, AlphaEnd(text, p + 1)), LAMBDA b :
         IF b <= Len(text) /\ text[b] = "{" THEN b ELSE 0)

\* ENTRY_START_RE.search(text, i): the index of the "@", 0 if none
EntrySearch(text, i) ==
  First({ p \in i..Len(text) : text[p] = "@" /\ EntryStartAt(text, p) # 0 })

\* the number of braces open after text[k], counted from text[j]
Depth(text, j, k) ==
  Cardinality({ m \in j..k : text[m] = "{" })
    - Cardinality({ m \in j..k : text[m] = "}" })

\* the inner loop of extract_entries from the opening brace at index j: the
\* index of the first closing brace that brings the depth back to zero,
\* 0 when the text ends first
BraceClose(text, j) ==
  First({ k \in j..Len(text) : text[k] = "}" /\ Depth(text, j, k) = 0 })

\* the outer loop of extract_entries from offset i
RECURSIVE ExtractFrom(_, _)
ExtractFrom(text, i) ==
  Let(EntrySearch(text, i), LAMBDA start :
    IF start = 0 THEN << >>
    ELSE Let(BraceClose(text, EntryStartAt(text, start)), LAMBDA close :
           IF close # 0
             THEN << SubSeq(text, start, close) >> \o ExtractFrom(text, close + 1)
             ELSE << SubSeq(text, start, Len(text)) >>))

extract_entries(text) == Let(text, LAMBDA t : ExtractFrom(t, 1))

\* ------------------------------------------------------------------------
\* Field append (split_filename_parts, has_source_field,
\* detect_common_field_indent, append_fields) and get_bibtex_id
\* ------------------------------------------------------------------------

Unknown == << "u", "n", "k", "n", "o", "w", "n" >>

\* x.strip() or "unknown"
StripOrUnknown(x) ==
  Let(Strip(x), LAMBDA v : IF v = << >> THEN Unknown ELSE v)

\* split_filename_parts, given the file name without directory and
\* extension: <<actual_search, source_val>>
split_filename_parts(base) ==
  Let(FindChar(base, "-", 1), LAMBDA d :
    IF d # 0
      THEN << StripOrUnknown(SubSeq(base, 1, d - 1)), StripOrUnknown(From(base, d + 1)) >>
      ELSE << StripOrUnknown(base), None >>)

\* the number of characters of the header: the index of the first comma
\* after the first brace, 0 when either is missing (after_header)
AfterHeader(entry_text) ==
  Let(FindChar(entry_text, "{", 1), LAMBDA first_brace :
    IF first_brace = 0 THEN 0 ELSE FindChar(entry_text, ",", first_brace + 1))

\* re.search(r'(?im)^\s*source\s*=', body) is not None
SourceSearch(body) ==
  \E k \in 1..Len(body) :
    /\ MatchAtI(body, << "s", "o", "u", "r", "c", "e" >>, k)
    /\ AtLineStart(body, k)
    /\ SkipSpace(body, k + 6) <= Len(body)
    /\ body[SkipSpace(body, k + 6)] = "="

has_source_field(entry_text) ==
  Let(From(entry_text, AfterHeader(entry_text) + 1), SourceSearch)

\* the index of the first line terminator character of s, 0 if none
FindBreak(s) == First({ k \in 1..Len(s) : s[k] \in { "\n", "\r" } })

\* str.splitlines()
RECURSIVE SplitLines(_)
SplitLines(s) ==
  IF s = << >> THEN << >>
  ELSE Let(FindBreak(s), LAMBDA b :
         IF b = 0 THEN << s >>
         ELSE << SubSeq(s, 1, b - 1) >>
                \o SplitLines(From(s, IF s[b] = "\r" /\ b < Len(s) /\ s[b + 1] = "\n"
                                        THEN b + 2 ELSE b + 1)))

\* re.match(r'^(\s*)', line).group(1)
LeadingSpace(line) == SubSeq(line, 1, SkipSpace(line, 1) - 1)

\* the indents of the lines that are not blank and hold a "="
FieldIndents(lines) ==
  Let(SelectSeq(lines, LAMBDA l : Strip(l) # << >> /\ FindChar(l, "=", 1) # 0),
      LAMBDA keep : [i \in 1..Len(keep) |-> LeadingSpace(keep[i])])

\* how many of the indents are equal to x
IndentCount(indents, x) == Cardinality({ i \in 1..Len(indents) : indents[i] = x })

\* the most frequent indent, of those the shortest, of those the first
\* (lines 200-203); the empty string when there is none
CommonIndent(indents) ==
  IF indents = << >> THEN << >>
  ELSE Let([i \in 1..Len(indents) |-> IndentCount(indents, indents[i])],
           LAMBDA count :
         indents[Min({ i \in 1..Len(indents) :
                         \A j \in 1..Len(indents) :
                           \/ count[j] < count[i]
                           \/ count[j] = count[i]
                                /\ Len(indents[i]) <= Len(indents[j]) })])

\* the index of the last closing brace, len(entry_text) + 1 when there is
\* none (rfind, lines 180 and 208)
LastBrace(entry_text) ==
  Let(RFindChar(entry_text, "}"), LAMBDA r :
    IF r = 0 THEN Len(entry_text) + 1 ELSE r)

detect_common_field_indent(entry_text) ==
  CommonIndent(FieldIndents(SplitLines(
    SubSeq(entry_text, AfterHeader(entry_text) + 1, LastBrace(entry_text) - 1))))

SourceEq == << "s","o","u","r","c","e"," ","=" ," ","{" >>

ActualSearchEq ==
  << "a","c","t","u","a","l","S","e","a","r","c","h"," ","="," ","{" >>

\* "\n" if "\n" in entry_text else "\r\n"
Newline(entry_text) ==
  IF FindChar(entry_text, "\n", 1) # 0 THEN << "\n" >> ELSE << "\r", "\n" >>

\* lines 213-220: the text to insert before the last closing brace
ToInsert(entry_text, indent, actual_search, source_val) ==
  (IF source_val # None /\ source_val # << >> /\ ~has_source_field(entry_text)
     THEN indent \o SourceEq \o source_val \o << "}", "," >> \o Newline(entry_text)
     ELSE << >>)
    \o indent \o ActualSearchEq \o actual_search \o << "}" >> \o Newline(entry_text)

\* a faulty append_fields: the closing brace is not put back
append_fields_unclosed(entry_text, actual_search, source_val) ==
  Let(LastBrace(entry_text), LAMBDA last_brace :
    SubSeq(entry_text, 1, last_brace - 1)
      \o Let(detect_common_field_indent(entry_text), LAMBDA indent :
           ToInsert(entry_text, indent, actual_search, source_val))
      \o From(entry_text, last_brace + 1))

append_fields(entry_text, actual_search, source_val) ==
  Let(LastBrace(entry_text), LAMBDA last_brace :
    SubSeq(entry_text, 1, last_brace - 1)
      \o Let(detect_common_field_indent(entry_text), LAMBDA indent :
           ToInsert(entry_text, indent, actual_search, source_val))
      \o (IF last_brace <= Len(entry_text) THEN << "}" >> ELSE << >>)
      \o From(entry_text, last_brace + 1))

get_bibtex_id(entry_text) ==
  Let(AfterHeader(entry_text), LAMBDA comma :
    IF comma = 0 THEN << >>
    ELSE Strip(SubSeq(entry_text, FindChar(entry_text, "{", 1) + 1, comma - 1)))

\* ------------------------------------------------------------------------
\* The deduplication key (build_dedupe_key)
\* ------------------------------------------------------------------------

\* re.search(r'\d{4}', year): the index of the first run of four digits,
\* 0 if none
YearSearch(year) ==
  First({ p \in 1..(Len(year) - 3) : \A k \in 0..3 : IsDigit(year[p + k]) })

\* a value that is neither None nor empty (Python's truth of a str | None)
Truthy(v) == v # None /\ v # << >>

\* lines 251-259: the key of a record that has a title
TitleKey(entry_text, title) ==
  Let(get_field(entry_text, << "y", "e", "a", "r" >>), LAMBDA year :
    IF Truthy(year) /\ YearSearch(year) # 0
      THEN << "TITLE_YEAR",
              _norm_text(title) \o << ":", ":" >>
                \o SubSeq(year, YearSearch(year), YearSearch(year) + 3) >>
      ELSE << "TITLE", _norm_text(title) >>)

\* a faulty AbstractKey: the fallback key is the empty string
abstract_key_empty_fallback(entry_text) ==
  Let(get_field(entry_text, << "a","b","s","t","r","a","c","t" >>),
      LAMBDA abstract :
    IF Truthy(abstract) THEN << "ABSTRACT", _norm_text(abstract) >>
    ELSE << "FALLBACK", << >> >>)

\* lines 261-266: the key of a record without DOI and title
AbstractKey(entry_text) ==
  Let(get_field(entry_text, << "a","b","s","t","r","a","c","t" >>),
      LAMBDA abstract :
    IF Truthy(abstract) THEN << "ABSTRACT", _norm_text(abstract) >>
    ELSE << "FALLBACK", _norm_text(entry_text) >>)

\* a faulty build_dedupe_key: the title is consulted before the DOI
build_dedupe_key_title_first(entry_text) ==
  Let(get_field(entry_text, << "t", "i", "t", "l", "e" >>), LAMBDA title :
    IF Truthy(title) THEN TitleKey(entry_text, title)
    ELSE Let(_find_normalized_doi(entry_text), LAMBDA doi :
           IF Truthy(doi) THEN << "DOI", doi >>
           ELSE AbstractKey(entry_text)))

\* a faulty build_dedupe_key: the abstract is consulted before the title
build_dedupe_key_abstract_first(entry_text) ==
  Let(_find_normalized_doi(entry_text), LAMBDA doi :
    IF Truthy(doi) THEN << "DOI", doi >>
    ELSE Let(get_field(entry_text, << "a","b","s","t","r","a","c","t" >>),
             LAMBDA abstract :
           IF Truthy(abstract) THEN << "ABSTRACT", _norm_text(abstract) >>
           ELSE Let(get_field(entry_text, << "t", "i", "t", "l", "e" >>),
                    LAMBDA title :
                  IF Truthy(title) THEN TitleKey(entry_text, title)
                  ELSE << "FALLBACK", _norm_text(entry_text) >>)))

build_dedupe_key(entry_text) ==
  Let(_find_normalized_doi(entry_text), LAMBDA doi :
    IF Truthy(doi) THEN << "DOI", doi >>
    ELSE Let(get_field(entry_text, << "t", "i", "t", "l", "e" >>), LAMBDA title :
           IF Truthy(title) THEN TitleKey(entry_text, title)
           ELSE AbstractKey(entry_text)))


\* ------------------------------------------------------------------------
\* Type injection (Add_type.py): the tokenizer extract_bibtex_entries and
\* process_text_add_type
\* ------------------------------------------------------------------------

\* [A-Za-z_-], the characters of a type label after its first letter
IsTypeChar(c) == IsAlpha(c) \/ c \in { "_", "-" }

\* where the type label of RE_ENTRY_HEAD matched at the "@" of index a ends
\* (exclusive), 0 when no letter follows the "@" and its white space
HeadTypeEnd(text, a) ==
  Let(SkipSpace(text, a + 1), LAMBDA ts :
    IF ts <= Len(text) /\ IsAlpha(text[ts])
      THEN RunEnd(text, ts, IsTypeChar) ELSE 0)

\* the index of the opening delimiter (group 2) when RE_ENTRY_HEAD matches
\* at the "@" of index a, else 0
HeadAt(text, a) ==
  IF a > Len(text) \/ text[a] # "@" \/ HeadTypeEnd(text, a) = 0 THEN 0
  ELSE Let(SkipSpace(text, HeadTypeEnd(text, a)), LAMBDA k :
         IF k <= Len(text) /\ text[k] \in { "{", "(" } THEN k ELSE 0)

\* the type label (group 1) of the match at index a
HeadType(text, a) ==
  SubSeq(text, SkipSpace(text, a + 1), HeadTypeEnd(text, a) - 1)

\* RE_ENTRY_HEAD.search(text, i): the index of the "@" of the leftmost match
\* at or after index i, 0 if none
HeadSearch(text, i) ==
  First({ a \in i..Len(text) : text[a] = "@" /\ HeadAt(text, a) # 0 })

\* a faulty CloseDelim: the closing delimiter is "}" for both styles
close_always_brace(open) == "}"

\* line 82
CloseDelim(open) == IF open = "{" THEN "}" ELSE ")"

\* the depth after text[p] of the loop of lines 88-97 started at the
\* opening delimiter of index k: only delimiters of its style are counted
DelimDepth(text, k, p) ==
  Cardinality({ m \in k..p : text[m] = text[k] })
    - Cardinality({ m \in k..p : text[m] = CloseDelim(text[k]) })

\* the index of the closing delimiter at which that loop breaks, 0 when the
\* text ends with the depth not back at zero
DelimClose(text, k) ==
  First({ p \in k..Len(text) :
            text[p] = CloseDelim(text[k]) /\ DelimDepth(text, k, p) = 0 })

\* a faulty resumption: after an unbalanced candidate the scan stops
resume_at_end(text, k) == Len(text) + 1

\* a faulty resumption: after an unbalanced candidate the scan starts again
\* at the beginning of the text
resume_at_start(text, k) == 1

\* where the scan resumes after an unbalanced candidate whose opening
\* delimiter is at index k (line 100, i = m.end())
ResumeAfter(text, k) == k + 1

\* the loop of lines 76-104 from the 1-based index i: the tuples
\* (entry_type, raw_entry, start, end) with 0-based start and exclusive end
RECURSIVE ExtractBibtexFrom(_, _)
ExtractBibtexFrom(text, i) ==
  Let(HeadSearch(text, i), LAMBDA a :
    IF a = 0 THEN << >>
    ELSE Let(DelimClose(text, HeadAt(text, a)), LAMBDA p :
           IF p = 0 THEN ExtractBibtexFrom(text, ResumeAfter(text, HeadAt(text, a)))
           ELSE << << HeadType(text, a), SubSeq(text, a, p), a - 1, p >> >>
                  \o ExtractBibtexFrom(text, p + 1)))

extract_bibtex_entries(text) == Let(text, LAMBDA t : ExtractBibtexFrom(t, 1))

\* RE_TYPE_FIELD matches with "type" at index t of body
TypeFieldAt(body, t) ==
  /\ MatchAtI(body, << "t", "y", "p", "e" >>, t)
  /\ t = 1 \/ body[t - 1] = "," \/ IsSpace(body[t - 1])
  /\ Let(SkipSpace(body, t + 4), LAMBDA e : e <= Len(body) /\ body[e] = "=")

has_type_field(raw_entry) ==
  Let(HeadSearch(raw_entry, 1), LAMBDA a :
    IF a = 0 THEN FALSE
    ELSE Let(From(raw_entry, HeadAt(raw_entry, a) + 1), LAMBDA body :
           \E t \in 1..Len(body) : TypeFieldAt(body, t)))

\* MAPPING.get(t, t)
MAPPING(t) ==
  CASE t = << >> -> << "g","e","n","e","r","i","c" >>
    [] t = << "a","r","t","i","c","l","e" >>
         -> << "a","r","t","i","c","l","e" >>
    [] t = << "i","n","p","r","o","c","e","e","d","i","n","g","s" >>
         -> << "c","o","n","f","e","r","e","n","c","e"," ","p","a","p","e","r" >>
    [] t = << "c","o","n","f","e","r","e","n","c","e" >>
         -> << "c","o","n","f","e","r","e","n","c","e"," ","p","a","p","e","r" >>
    [] t = << "p","r","o","c","e","e","d","i","n","g","s" >>
         -> << "p","r","o","c","e","e","d","i","n","g","s" >>
    [] t = << "i","n","c","o","l","l","e","c","t","i","o","n" >>
         -> << "b","o","o","k","-","c","h","a","p","t","e","r" >>
    [] t = << "i","n","b","o","o","k" >>
         -> << "b","o","o","k","-","c","h","a","p","t","e","r" >>
    [] t = << "b","o","o","k" >>
         -> << "b","o","o","k" >>
    [] t = << "p","h","d","t","h","e","s","i","s" >>
         -> << "t","h","e","s","i","s" >>
    [] t = << "m","a","s","t","e","r","s","t","h","e","s","i","s" >>
         -> << "t","h","e","s","i","s" >>
    [] t = << "t","h","e","s","i","s" >>
         -> << "t","h","e","s","i","s" >>
    [] t = << "t","e","c","h","r","e","p","o","r","t" >>
         -> << "r","e","p","o","r","t" >>
    [] t = << "r","e","p","o","r","t" >>
         -> << "r","e","p","o","r","t" >>
    [] t = << "m","a","n","u","a","l" >>
         -> << "m","a","n","u","a","l" >>
    [] t = << "o","n","l","i","n","e" >>
         -> << "w","e","b","p","a","g","e" >>
    [] t = << "w","w","w" >>
         -> << "w","e","b","p","a","g","e" >>
    [] t = << "d","a","t","a","s","e","t" >>
         -> << "d","a","t","a","s","e","t" >>
    [] t = << "s","o","f","t","w","a","r","e" >>
         -> << "s","o","f","t","w","a","r","e" >>
    [] t = << "b","o","o","k","l","e","t" >>
         -> << "b","o","o","k","l","e","t" >>
    [] t = << "u","n","p","u","b","l","i","s","h","e","d" >>
         -> << "u","n","p","u","b","l","i","s","h","e","d" >>
    [] t = << "p","a","t","e","n","t" >>
         -> << "p","a","t","e","n","t" >>
    [] t = << "m","i","s","c" >>
         -> << "g","e","n","e","r","i","c" >>
    [] OTHER -> t

derive_type_value(entry_type) == MAPPING(Lower(Strip(entry_type)))

\* "type = {<type_value>}"
TypeField(type_value) ==
  << "t", "y", "p", "e", " ", "=", " ", "{" >> \o type_value \o << "}" >>

\* [A-Za-z0-9_-], the characters of a field name after its first letter
IsFieldNameChar(c) == IsAlpha(c) \/ IsDigit(c) \/ c \in { "_", "-" }

\* RE_INDENT_FIELD matches at the "\n" of index b of s: where its group 1,
\* the indent, ends (exclusive), 0 when there is no match
IndentEndAt(s, b) ==
  IF s[b] # "\n" THEN 0
  ELSE Let(RunEnd(s, b + 1, LAMBDA c : c \in { " ", "\t" }), LAMBDA e :
         IF /\ e <= Len(s) /\ IsAlpha(s[e])
            /\ Let(SkipSpace(s, RunEnd(s, e + 1, IsFieldNameChar)), LAMBDA q :
                 q <= Len(s) /\ s[q] = "=")
           THEN e ELSE 0)

\* lines 145-148: the indent of the first field line of after, "" if none
FieldIndent(after) ==
  Let(First({ b \in 1..Len(after) : IndentEndAt(after, b) # 0 }), LAMBDA b :
    IF b = 0 THEN << >> ELSE SubSeq(after, b + 1, IndentEndAt(after, b) - 1))

\* lines 134-140 of insert_type_field: the entry has no comma after its
\* opening delimiter at index k
InsertBeforeClose(raw_entry, k, type_value) ==
  Let(RFindChar(raw_entry, CloseDelim(raw_entry[k])), LAMBDA close :
    IF close = 0 THEN raw_entry
    ELSE SubSeq(raw_entry, 1, close - 1) \o << ",", "\n" >>
           \o TypeField(type_value) \o << "\n" >> \o From(raw_entry, close))

insert_type_field(raw_entry, type_value) ==
  Let(HeadSearch(raw_entry, 1), LAMBDA a :
    IF a = 0 THEN raw_entry
    ELSE Let(FindChar(raw_entry, ",", HeadAt(raw_entry, a) + 1), LAMBDA comma :
           IF comma = 0
             THEN InsertBeforeClose(raw_entry, HeadAt(raw_entry, a), type_value)
           ELSE SubSeq(raw_entry, 1, comma) \o << "\n" >>
                  \o FieldIndent(From(raw_entry, comma + 1))
                  \o TypeField(type_value) \o << "," >>
                  \o From(raw_entry, comma + 1)))

\* lines 166-174: what process_text_add_type writes for one entry
FixedEntry(entry) ==
  IF Lower(entry[1]) \in { << "c","o","m","m","e","n","t" >>,
                           << "p","r","e","a","m","b","l","e" >>,
                           << "s","t","r","i","n","g" >> }
       \/ has_type_field(entry[2])
    THEN entry[2]
    ELSE insert_type_field(entry[2], derive_type_value(Lower(entry[1])))

\* a faulty process_text_add_type: the text between the entries is left out
process_text_entries_only(text) ==
  Let(extract_bibtex_entries(text), LAMBDA entries :
    IF entries = << >> THEN << text, 0 >>
    ELSE << Concat([e \in 1..Len(entries) |-> FixedEntry(entries[e])]), 0 >>)

\* process_text_add_type: <<new text, changes>>.  The part before entry e
\* is text[cursor:start], with cursor the end of the entry before it
process_text_add_type(text) ==
  Let(extract_bibtex_entries(text), LAMBDA entries :
    IF entries = << >> THEN << text, 0 >>
    ELSE << Concat([e \in 1..Len(entries) |->
                      SubSeq(text, (IF e = 1 THEN 0 ELSE entries[e - 1][4]) + 1,
                             entries[e][3])
                        \o FixedEntry(entries[e])])
              \o From(text, entries[Len(entries)][4] + 1),
            Cardinality({ e \in 1..Len(entries) :
                            FixedEntry(entries[e]) # entries[e][2] }) >>)

\* ------------------------------------------------------------------------
\* Keyword stage (Keywords.py): split_entries and the field parser
\* ------------------------------------------------------------------------

\* lines 159-161: the index of the first "{" or "(" after the "@" of index
\* at, 0 if none
OpenSearch(bibtext, at) ==
  First({ j \in (at + 1)..Len(bibtext) : bibtext[j] \in { "{", "(" } })

\* the pieces of one iteration of the loop of lines 153-175 for the "@" of
\* index at, and of the iterations after it
RECURSIVE SplitFrom(_, _)
SplitAt(bibtext, at) ==
  Let(OpenSearch(bibtext, at), LAMBDA j :
    IF j = 0 THEN << << "non-entry", From(bibtext, at) >> >>
    ELSE Let(DelimClose(bibtext, j), LAMBDA k :
           IF k = 0 THEN << << "entry", From(bibtext, at) >> >>
           ELSE << << "entry", SubSeq(bibtext, at, k) >> >>
                  \o SplitFrom(bibtext, k + 1)))

\* the loop of lines 153-175 from the 1-based index i
SplitFrom(bibtext, i) ==
  IF i > Len(bibtext) THEN << >>
  ELSE Let(FindChar(bibtext, "@", i), LAMBDA at :
         IF at = 0 THEN << << "non-entry", From(bibtext, i) >> >>
         ELSE (IF at > i THEN << << "non-entry", SubSeq(bibtext, i, at - 1) >> >>
                         ELSE << >>)
                \o SplitAt(bibtext, at))

split_entries(bibtext) == Let(bibtext, LAMBDA t : SplitFrom(t, 1))

\* the character at the 0-based offset i of s (Python's s[i])
At(s, i) == s[i + 1]

\* s[i:j] for 0-based offsets
Sub(s, i, j) == SubSeq(s, i + 1, j)

\* the offset at which white space from offset i on stops
SkipSpaceFrom(s, i) == SkipSpace(s, i + 1) - 1

\* a faulty read_braced: the value ends at the first closing brace
read_braced_flat(s, i) ==
  Let(FindChar(s, "}", i + 2), LAMBDA close :
    IF close # 0 THEN << SubSeq(s, i + 2, close - 1), close >>
    ELSE << SubSeq(s, i + 2, Len(s)), Len(s) >>)

\* read_braced(s, i) for the offset i of a "{": <<text, offset after it>>
read_braced(s, i) ==
  Let(BraceClose(s, i + 1), LAMBDA close :
    IF close # 0 THEN << SubSeq(s, i + 2, close - 1), close >>
    ELSE << SubSeq(s, i + 2, Len(s)), Len(s) >>)

\* esc is set when the loop of read_quoted, started at the quote of offset
\* i, reads the character of offset j: an odd number of backslashes lies
\* directly before it
Escaped(s, i, j) ==
  (j - 1 - Last({ k \in (i + 1)..(j - 1) : At(s, k) # "\\" } \cup { i })) % 2 = 1

\* a faulty QuoteEnd: an escaped quote ends the value too
quote_end_first(s, i) ==
  Min({ j \in (i + 1)..(Len(s) - 1) : At(s, j) = "\"" } \cup { Len(s) })

\* the offset of the quote that ends the value opened at offset i, Len(s)
\* when there is none
QuoteEnd(s, i) ==
  Min({ j \in (i + 1)..(Len(s) - 1) : At(s, j) = "\"" /\ ~Escaped(s, i, j) }
        \cup { Len(s) })

\* a faulty read_quoted: a backslash does not escape
read_quoted_no_escape(s, i) ==
  Let(FindChar(s, "\"", i + 2), LAMBDA close :
    IF close # 0 THEN << SubSeq(s, i + 2, close - 1), close >>
    ELSE << SubSeq(s, i + 2, Len(s)), Len(s) >>)

\* read_quoted(s, i) for the offset i of a quote: the escaped characters and
\* the characters that are no backslash, up to the closing quote
read_quoted(s, i) ==
  Let(QuoteEnd(s, i), LAMBDA end :
    << Concat([d \in 1..(end - i - 1) |->
                 IF Escaped(s, i, i + d) \/ At(s, i + d) # "\\"
                   THEN << At(s, i + d) >> ELSE << >>]),
       IF end < Len(s) THEN end + 1 ELSE Len(s) >>)

\* lines 230-232: an undelimited sub-value from offset i
ReadBare(s, i) ==
  Let(Min({ j \in i..(Len(s) - 1) : At(s, j) \in { ",", "#", "\r", "\n" } }
            \cup { Len(s) }), LAMBDA j :
    << Strip(Sub(s, i, j)), j >>)

\* lines 225-232: the sub-value at offset i and the offset after it
ReadPart(s, i) ==
  IF At(s, i) = "{" THEN read_braced(s, i)
  ELSE IF At(s, i) = "\"" THEN read_quoted(s, i)
  ELSE ReadBare(s, i)

\* the loop of read_value from offset i: <<the parts joined, end_index>>
RECURSIVE ReadParts(_, _, _)
ReadParts(s, i, start) ==
  Let(SkipSpaceFrom(s, i), LAMBDA b :
    IF b >= Len(s) THEN << << >>, start >>
    ELSE Let(ReadPart(s, b), LAMBDA part :
           Let(SkipSpaceFrom(s, part[2]), LAMBDA e :
             IF e < Len(s) /\ At(s, e) = "#"
               THEN Let(ReadParts(s, e + 1, start), LAMBDA rest :
                      << part[1] \o rest[1], rest[2] >>)
             ELSE IF e < Len(s) /\ At(s, e) = ","
               THEN << part[1], e + 1 >>
             ELSE << part[1], e >>)))

\* read_value(s, i): <<value, raw segment, end_index>>
read_value(s, i) ==
  Let(ReadParts(s, i, i), LAMBDA r :
    << Strip(r[1]), Sub(s, i, r[2]), r[2] >>)

\* [A-Za-z0-9_:\-], the characters of a field name
IsNameCharKw(c) == IsAlpha(c) \/ IsDigit(c) \/ c \in { "_", ":", "-" }

\* lines 209-212: behind a token that no "=" follows, the offset after the
\* next comma from offset i on
SkipToken(s, i) ==
  Let(FindChar(s, ",", i + 1), LAMBDA c : IF c = 0 THEN Len(s) ELSE c)

\* the loop of parse_fields from offset i: the fields (name, value, raw)
RECURSIVE FieldsFrom(_, _)
FieldsFrom(body_text, i) ==
  Let(RunEnd(body_text, i + 1, LAMBDA c : c \in { " ", "\t", "\r", "\n", "," }) - 1,
      LAMBDA b :
    IF b >= Len(body_text) THEN << >>
    ELSE Let(RunEnd(body_text, b + 1, IsNameCharKw) - 1, LAMBDA e :
           Let(SkipSpaceFrom(body_text, e), LAMBDA q :
             IF q >= Len(body_text) \/ At(body_text, q) # "="
               THEN FieldsFrom(body_text, SkipToken(body_text, q))
             ELSE Let(read_value(body_text, SkipSpaceFrom(body_text, q + 1)),
                      LAMBDA v :
                    << << Sub(body_text, b, e), v[1], v[2] >> >>
                      \o FieldsFrom(body_text, v[3])))))

parse_fields(body_text) == Let(body_text, LAMBDA t : FieldsFrom(t, 0))

\* ------------------------------------------------------------------------
\* Screening.py: the field query (normalize_value, extract_all_fields)
\* ------------------------------------------------------------------------

\* the outcome of a call that raises IndexError
IndexError == << "IndexError" >>

IsBlank(c) == c \in { " ", "\t" }

IsValueChar(c) == c \notin { ",", "\r", "\n" }

\* where the value group starts when the white space behind "=" runs from
\* v0 to v1 (exclusive): at v1 if a value character is there, else one blank
\* is given back to [^,\r\n]+; 0 when there is no blank to give back
ValueStart(s, v0, v1) ==
  IF v1 <= Len(s) /\ IsValueChar(s[v1]) THEN v1
  ELSE IF v1 > v0 THEN v1 - 1 ELSE 0

\* the last index of (".*?"|\{.*?\}|[^,\r\n]+) matched at index v
ValueEnd(s, v) ==
  IF s[v] = "\"" /\ FindChar(s, "\"", v + 1) # 0 THEN FindChar(s, "\"", v + 1)
  ELSE IF s[v] = "{" /\ FindChar(s, "}", v + 1) # 0 THEN FindChar(s, "}", v + 1)
  ELSE RunEnd(s, v, IsValueChar) - 1

\* the regular expression of line 63 matched at the line start p:
\* <<name, value group, index behind the match>>, << >> when it does not match
FieldAt(s, p) ==
  IF ~(p = 1 \/ s[p - 1] = "\n") THEN << >>
  ELSE Let(RunEnd(s, p, IsBlank), LAMBDA b :
    Let(RunEnd(s, b, IsNameCharKw), LAMBDA e :
      Let(RunEnd(s, e, IsBlank), LAMBDA q :
        IF e = b \/ q > Len(s) \/ s[q] # "=" THEN << >>
        ELSE Let(ValueStart(s, q + 1, RunEnd(s, q + 1, IsBlank)), LAMBDA v :
               IF v = 0 THEN << >>
               ELSE << SubSeq(s, b, e - 1), SubSeq(s, v, ValueEnd(s, v)),
                       ValueEnd(s, v) + 1 >>))))

\* re.finditer from index p on: the matches (name, value group) in order
RECURSIVE FieldMatches(_, _)
FieldMatches(s, p) ==
  Let(First({ k \in p..Len(s) : FieldAt(s, k) # << >> }), LAMBDA k :
    IF k = 0 THEN << >>
    ELSE << << FieldAt(s, k)[1], FieldAt(s, k)[2] >> >>
           \o FieldMatches(s, FieldAt(s, k)[3]))

\* str.splitlines()[0] of a string that is not empty
FirstLine(v) ==
  SubSeq(v, 1, RunEnd(v, 1, LAMBDA c : c \notin { "\n", "\r" }) - 1)

\* normalize_value(v); the first line of an empty list of lines raises
normalize_value(v) ==
  IF Strip(v) = << >> THEN IndexError
  ELSE Let(Strip(FirstLine(Strip(v))), LAMBDA first_line :
         IF \/ first_line[1] = "{" /\ first_line[Len(first_line)] = "}"
            \/ first_line[1] = "\"" /\ first_line[Len(first_line)] = "\""
           THEN Strip(SubSeq(first_line, 2, Len(first_line) - 1))
         ELSE first_line)

\* dict.get: the value of the first pair of fields named name, None if none
Get(fields, name) ==
  Let(First({ k \in 1..Len(fields) : fields[k][1] = name }), LAMBDA k :
    IF k = 0 THEN None ELSE fields[k][2])

\* name in fields
Has(fields, name) == \E k \in 1..Len(fields) : fields[k][1] = name

\* fields[name] = value: the value of the pair named name is replaced, a new
\* pair is added at the end
Put(fields, name, value) ==
  IF ~Has(fields, name) THEN Append(fields, << name, value >>)
  ELSE [k \in 1..Len(fields) |->
          IF fields[k][1] = name THEN << name, value >> ELSE fields[k]]

\* lines 63-67: the first match of every lowercased name, normalized
FirstMatches(ms) ==
  SelectSeq([k \in 1..Len(ms) |->
               IF \E j \in 1..(k - 1) : Lower(ms[j][1]) = Lower(ms[k][1])
                 THEN << >>
                 ELSE << Lower(ms[k][1]), normalize_value(ms[k][2]) >>],
            LAMBDA pair : pair # << >>)

\* line 71: the parts of sw between semicolons, stripped, the empty ones
\* left out
SplitSemicolons(sw) ==
  Let([k \in 1..(1 + Cardinality({ p \in 1..Len(sw) : sw[p] = ";" })) |->
         Strip(SubSeq(sw,
           1 + Last({ p \in 1..Len(sw) :
                        sw[p] = ";"
                        /\ Cardinality({ q \in 1..p : sw[q] = ";" }) = k - 1 }),
           Min({ p \in 1..Len(sw) :
                   sw[p] = ";"
                   /\ Cardinality({ q \in 1..p : sw[q] = ";" }) = k }
                 \cup { Len(sw) + 1 }) - 1))],
      LAMBDA parts : SelectSeq(parts, LAMBDA part : part # << >>))

\* extract_all_fields(entry_text): the dictionary as the sequence of its
\* (name, value) pairs in insertion order, IndexError when normalize_value
\* raises
extract_all_fields(entry_text) ==
  Let(FirstMatches(FieldMatches(entry_text, 1)), LAMBDA fields :
    IF \E k \in 1..Len(fields) : fields[k][2] = IndexError THEN IndexError
    ELSE Put(IF Get(fields, << "l","a","n","g","u","a","g","e" >>) = None
                /\ Get(fields, << "l","a","n","g","i","d" >>) # None
               THEN Append(fields,
                      << << "l","a","n","g","u","a","g","e" >>,
                         Get(fields, << "l","a","n","g","i","d" >>) >>)
               ELSE fields,
             << "s","e","a","r","c","h","w","o","r","d","_","l","i","s","t" >>,
             IF Get(fields, << "s","e","a","r","c","h","w","o","r","d" >>) = None
               THEN << >>
               ELSE SplitSemicolons(
                      Get(fields, << "s","e","a","r","c","h","w","o","r","d" >>))))

\* ------------------------------------------------------------------------
\* Screening.py: the entries of the input file, the type line of a kept
\* entry, the filters
\* ------------------------------------------------------------------------

\* _entry_start_re matched at the line start p: the index of the "@" behind
\* the white space of ^\s*, 0 when it does not match at p
StartReAt(text, p) ==
  IF ~(p = 1 \/ text[p - 1] = "\n") THEN 0
  ELSE Let(SkipSpace(text, p), LAMBDA a :
         IF a <= Len(text) /\ text[a] = "@" /\ AlphaEnd(text, a + 1) > a + 1
            /\ Let(SkipSpace(text, AlphaEnd(text, a + 1)), LAMBDA b :
                 b <= Len(text) /\ text[b] = "{")
           THEN a ELSE 0)

\* _entry_start_re.search(text, i) for the offset i: the index of the start
\* of the leftmost match, 0 if none
StartReSearch(text, i) ==
  First({ p \in (i + 1)..Len(text) : StartReAt(text, p) # 0 })

\* lines 78-94 of iter_entries_with_raw for the match that starts at p:
\* <<raw block, entry type, offset behind the block>>, << >> when the braces
\* of the block do not balance (line 95)
EntryAt(text, p) ==
  Let(StartReAt(text, p), LAMBDA a :
    Let(BraceClose(text, FindChar(text, "{", AlphaEnd(text, a + 1))), LAMBDA close :
      IF close = 0 THEN << >>
      ELSE << SubSeq(text, p, close),
              SubSeq(text, a + 1, AlphaEnd(text, a + 1) - 1), close >>))

\* iter_entries_with_raw(text) from the offset i on: the (raw block, entry
\* type) pairs it yields
RECURSIVE IterFrom(_, _)
IterFrom(text, i) ==
  Let(StartReSearch(text, i), LAMBDA p :
    IF p = 0 \/ EntryAt(text, p) = << >> THEN << >>
    ELSE << << EntryAt(text, p)[1], EntryAt(text, p)[2] >> >>
           \o IterFrom(text, EntryAt(text, p)[3]))

iter_entries_with_raw(text) == IterFrom(text, 0)

\* has_type_field of Screening.py: (?im)^[ \t]*type[ \t]*=
screening_has_type_field(raw_entry) ==
  \E p \in 1..Len(raw_entry) :
    /\ p = 1 \/ raw_entry[p - 1] = "\n"
    /\ Let(RunEnd(raw_entry, p, IsBlank), LAMBDA t :
         /\ MatchAtI(raw_entry, << "t","y","p","e" >>, t)
         /\ Let(RunEnd(raw_entry, t + 4, IsBlank), LAMBDA q :
              q <= Len(raw_entry) /\ raw_entry[q] = "="))

\* str.splitlines(keepends=True)
RECURSIVE SplitLinesKeep(_)
SplitLinesKeep(s) ==
  IF s = << >> THEN << >>
  ELSE Let(FindBreak(s), LAMBDA b :
         IF b = 0 THEN << s >>
         ELSE Let(IF s[b] = "\r" /\ b < Len(s) /\ s[b + 1] = "\n"
                    THEN b + 1 ELSE b, LAMBDA e :
                << SubSeq(s, 1, e) >> \o SplitLinesKeep(From(s, e + 1))))

\* str.endswith
EndsWith(s, suffix) == MatchAt(s, suffix, Len(s) - Len(suffix) + 1)

\* the line terminator at the end of line, << >> if it has none
LineEnd(line) ==
  IF EndsWith(line, << "\r", "\n" >>) THEN << "\r", "\n" >>
  ELSE IF EndsWith(line, << "\n" >>) THEN << "\n" >>
  ELSE << >>

\* _detect_newline_style(lines)
_detect_newline_style(lines) ==
  Let(Last({ k \in 1..Len(lines) : LineEnd(lines[k]) # << >> }), LAMBDA k :
    IF k = 0 THEN << "\n" >> ELSE LineEnd(lines[k]))

\* re.match(r'^[ \t]*}\s*$', line)
IsClosingLine(line) ==
  Let(RunEnd(line, 1, IsBlank), LAMBDA b :
    /\ b <= Len(line) /\ line[b] = "}"
    /\ SkipSpace(line, b + 1) > Len(line))

\* _last_significant_before_closing(lines, close_idx), 0 for None
_last_significant_before_closing(lines, close_idx) ==
  Last({ k \in 1..(close_idx - 1) :
           Strip(lines[k]) # << >> /\ Strip(lines[k])[1] # "%" })

\* _ensure_trailing_comma_on_line(line)
_ensure_trailing_comma_on_line(line) ==
  Let(SubSeq(line, 1, Len(line) - Len(LineEnd(line))), LAMBDA core :
    Let(FindChar(core, "%", 1), LAMBDA p :
      Let(IF p # 0 THEN SubSeq(core, 1, p - 1) ELSE core, LAMBDA main :
        Let(RStripChars(main, WhiteSpace), LAMBDA main_r :
          IF main_r # << >> /\ main_r[Len(main_r)] = ","
            THEN line
            ELSE main_r \o << "," >>
                   \o (IF p # 0 THEN From(core, p) ELSE << >>)
                   \o LineEnd(line)))))

\* lines 157-171 of ensure_type_field_as_class: the type line is inserted
\* before the closing line lines[close_idx]
InsertTypeLine(raw_entry, entry_type, lines, close_idx) ==
  Let(_last_significant_before_closing(lines, close_idx), LAMBDA last_sig_idx :
    Let(IF last_sig_idx # 0 /\ RunEnd(lines[last_sig_idx], 1, IsBlank) > 1
          THEN SubSeq(lines[last_sig_idx], 1,
                      RunEnd(lines[last_sig_idx], 1, IsBlank) - 1)
          ELSE << " ", " " >>, LAMBDA indent :
      Let(Concat([k \in 1..(close_idx - 1) |->
                    IF k = last_sig_idx
                      THEN _ensure_trailing_comma_on_line(lines[k])
                      ELSE lines[k]])
            \o indent \o << "t","y","p","e"," ","="," ","{" >>
            \o Lower(entry_type) \o << "}" >> \o _detect_newline_style(lines)
            \o Concat([k \in 1..(Len(lines) - close_idx + 1) |->
                         lines[close_idx + k - 1]]), LAMBDA result :
        IF EndsWith(raw_entry, << "\n" >>) /\ ~EndsWith(result, << "\n" >>)
          THEN result \o << "\n" >> ELSE result)))

\* ensure_type_field_as_class(raw_entry, entry_type)
ensure_type_field_as_class(raw_entry, entry_type) ==
  IF screening_has_type_field(raw_entry) THEN raw_entry
  ELSE Let(RStripChars(raw_entry, WhiteSpace), LAMBDA trimmed :
    IF ~EndsWith(trimmed, << "}" >>) THEN raw_entry
    ELSE Let(SplitLinesKeep(trimmed), LAMBDA lines :
      Let(Last({ k \in 1..Len(lines) : IsClosingLine(lines[k]) }), LAMBDA close_idx :
        IF close_idx = 0 THEN raw_entry
        ELSE InsertTypeLine(raw_entry, entry_type, lines, close_idx))))

\* int() of a string of decimal digits
DigitValue(c) ==
  CHOOSE n \in 0..9 : << "0","1","2","3","4","5","6","7","8","9" >>[n + 1] = c

RECURSIVE ToInt(_)
ToInt(s) ==
  IF s = << >> THEN 0
  ELSE 10 * ToInt(SubSeq(s, 1, Len(s) - 1)) + DigitValue(s[Len(s)])

\* dict.get(name, default)
GetOr(fields, name, default) ==
  IF Has(fields, name) THEN Get(fields, name) ELSE default

\* by_year_range(min_year, max_year) called on the fields of an entry
by_year_range(min_year, max_year, fields) ==
  Let(Get(fields, << "y","e","a","r" >>), LAMBDA y :
    /\ Truthy(y)
    /\ YearSearch(y) # 0
    /\ min_year <= ToInt(SubSeq(y, YearSearch(y), YearSearch(y) + 3))
    /\ ToInt(SubSeq(y, YearSearch(y), YearSearch(y) + 3)) <= max_year)

\* by_types(allowed)
by_types(allowed, fields) ==
  Lower(Strip(GetOr(fields, << "t","y","p","e" >>, << >>))) \in allowed

\* by_language(langs): a missing language passes
by_language(langs, fields) ==
  Let(Lower(Strip(GetOr(fields, << "l","a","n","g","u","a","g","e" >>, << >>))),
      LAMBDA lang_val : lang_val = << >> \/ lang_val \in langs)

\* by_searchword_min_len(min_len)
by_searchword_min_len(min_len, fields) ==
  Len(GetOr(fields,
            << "s","e","a","r","c","h","w","o","r","d","_","l","i","s","t" >>,
            << >>)) >= min_len

\* by_field_not_equal(field, value): the name of the field is lowercased
by_field_not_equal(field, value, fields) ==
  Get(fields, Lower(Strip(field))) # value

\* active_filters(): the filters in list order, each with the bucket that
\* _mark gives it
active_filters ==
  << [factory |-> "by_year_range", bucket |-> "year"],
     [factory |-> "by_types", bucket |-> "type"],
     [factory |-> "by_language", bucket |-> "language"],
     [factory |-> "by_searchword_min_len", bucket |-> "searchword"],
     [factory |-> "by_field_not_equal", bucket |-> "field:searchword"] >>

\* flt(etype, fields, raw) for a filter of active_filters()
CallFilter(flt, etype, fields, raw) ==
  CASE flt.factory = "by_year_range" -> by_year_range(2015, 2026, fields)
    [] flt.factory = "by_types" ->
         by_types({ << "a","r","t","i","c","l","e" >> }, fields)
    [] flt.factory = "by_language" ->
         by_language({ << "e","n","g","l","i","s","h" >> }, fields)
    [] flt.factory = "by_searchword_min_len" -> by_searchword_min_len(2, fields)
    [] flt.factory = "by_field_not_equal" ->
         by_field_not_equal(<< "s","e","a","r","c","h","W","o","r","d" >>,
                            << "N","o","M","a","t","c","h" >>, fields)

\* lines 353-365 of main: the index of the filter at which the loop over
\* filters breaks, 0 when every filter returns true
FailedFilter(filters, etype, fields, raw) ==
  First({ k \in 1..Len(filters) : ~CallFilter(filters[k], etype, fields, raw) })

\* s with a line feed at its end
WithLineFeed(s) == IF EndsWith(s, << "\n" >>) THEN s ELSE s \o << "\n" >>

\* dict.setdefault(bucket, []).append(entry)
AppendTo(by_bucket, bucket, entry) ==
  Put(by_bucket, bucket, Append(GetOr(by_bucket, bucket, << >>), entry))

\* '\n'.join(entries)
JoinLines(entries) ==
  IF entries = << >> THEN << >>
  ELSE entries[1]
         \o Concat([k \in 1..(Len(entries) - 1) |-> << "\n" >> \o entries[k + 1]])

\* ', '.join(allowed)
JoinComma(allowed) ==
  IF allowed = << >> THEN << >>
  ELSE allowed[1]
         \o Concat([k \in 1..(Len(allowed) - 1) |->
                      << ",", " " >> \o allowed[k + 1]])

\* getattr(flt, "allowed_langs") of the language filter of active_filters()
allowed_langs == << << "e","n","g","l","i","s","h" >> >>

\* line 375: the comment of a kept entry without a language
IncludedComment(allowed) ==
  << "%"," ","I","N","C","L","U","D","E","D"," ","(","m","i","s","s",
       "i","n","g"," ","l","a","n","g","u","a","g","e",")",":"," ","a",
       "l","l","o","w","e","d"," ","i","n"," ","{" >>
    \o JoinComma(allowed)
    \o << "}",";"," ","f","o","u","n","d",":"," ","<","m","i","s","s","i",
     "n","g",">","\n" >>

\* line 390: the comment of an entry removed by the language filter
RemovedComment(allowed, found) ==
  << "%"," ","R","E","M","O","V","E","D"," ","b","y"," ","l","a","n",
       "g","u","a","g","e",":"," ","e","x","p","e","c","t","e","d"," ",
       "i","n"," ","{" >>
    \o JoinComma(allowed)
    \o << "}",";"," ","f","o","u","n","d",":"," " >>
    \o found \o << "\n" >>
\* ------------------------------------------------------------------------
\* The input: the .bib files of INPUT_DIR
\* ------------------------------------------------------------------------

\* the largest number of records in the input directory
MaxRecords == 3

\* a record with a well-formed doi field, a title and a year
RecDoi ==
  << "@", "a", "{", "k", "1", ",", "\n", "d", "o", "i", " ", "=", " ", "{",
     "1", "0", ".", "1", "0", "0", "0", "/", "a", "b", "}", ",", "\n", "t",
     "i", "t", "l", "e", " ", "=", " ", "{", "A", "b", " ", "c", "}", ",",
     "\n", "y", "e", "a", "r", " ", "=", " ", "{", "2", "0", "2", "0", "}",
     "\n", "}" >>

\* a record whose doi field is malformed and whose url field holds the DOI
\* of RecDoi in resolver form; another title, indented fields
RecUrl ==
  << "@", "a", "{", "k", "2", ",", "\n", " ", "d", "o", "i", " ", "=", " ",
     "{", "b", "a", "d", "}", ",", "\n", " ", "u", "r", "l", " ", "=", " ",
     "{", "h", "t", "t", "p", "s", ":", "/", "/", "d", "o", "i", ".", "o",
     "r", "g", "/", "1", "0", ".", "1", "0", "0", "0", "/", "A", "B", ".",
     "}", ",", "\n", " ", "t", "i", "t", "l", "e", " ", "=", " ", "{", "X",
     "y", "}", "\n", "}" >>

\* a record without doi: the title and year of RecDoi
RecTitleYear ==
  << "@", "a", "{", "k", "3", ",", "\n", "t", "i", "t", "l", "e", " ", "=",
     " ", "{", "A", "b", " ", "c", "}", ",", "\n", "y", "e", "a", "r", " ",
     "=", " ", "{", "2", "0", "2", "0", "}", "\n", "}" >>

\* the same title up to letter case and punctuation next to white space or
\* at the end; the same year
RecTitleYearPunct ==
  << "@", "a", "{", "k", "4", ",", "\n", "t", "i", "t", "l", "e", " ", "=",
     " ", "{", "a", "b", ",", " ", "C", "!", "}", ",", "\n", "y", "e", "a",
     "r", " ", "=", " ", "{", "c", ".", " ", "2", "0", "2", "0", "}", "\n",
     "}" >>

\* the same title up to a hyphen inside a word; the same year
RecTitleYearHyphen ==
  << "@", "a", "{", "k", "5", ",", "\n", "t", "i", "t", "l", "e", " ", "=",
     " ", "{", "A", "-", "b", " ", "c", "}", ",", "\n", "y", "e", "a", "r",
     " ", "=", " ", "{", "2", "0", "2", "0", "}", "\n", "}" >>

\* a malformed doi, a title and a year field without four digits
RecTitle ==
  << "@", "a", "{", "k", "6", ",", "\n", "d", "o", "i", " ", "=", " ", "{",
     "b", "a", "d", "}", ",", "\n", "t", "i", "t", "l", "e", " ", "=", " ",
     "{", "A", "b", " ", "c", "}", ",", "\n", "y", "e", "a", "r", " ", "=",
     " ", "{", "n", ".", "d", ".", "}", "\n", "}" >>

\* a malformed doi and a quote-delimited abstract, no title
RecAbstract ==
  << "@", "a", "{", "k", "7", ",", "\n", "d", "o", "i", " ", "=", " ", "{",
     "b", "a", "d", "}", ",", "\n", "a", "b", "s", "t", "r", "a", "c", "t",
     " ", "=", " ", "\"", "A", "b", " ", "c", "\"", "\n", "}" >>

\* a record without fields
RecEmpty ==
  << "@", "a", "{", "k", "8", ",", "\n", "}" >>

\* the records the input files are made of: two records of one DOI with
\* different titles, a record with the title and year of the first and no
\* DOI, and a record without fields
Pool == << RecDoi, RecUrl, RecTitleYear, RecEmpty >>

\* records whose titles differ in letter case and punctuation only
TitlePool == << RecTitleYear, RecTitleYearPunct, RecTitleYearHyphen >>

\* records of four strategies, with the same title and year (RecDoi,
\* RecTitleYear) and with the same key string (RecTitle, RecAbstract)
StrategyPool == << RecDoi, RecTitleYear, RecTitle, RecAbstract >>

\* the text of a file that holds the given records, one blank line apart
FileText(recs) ==
  Concat([i \in 1..Len(recs) |-> recs[i] \o << "\n", "\n" >>])

\* the base names (without directory and ".bib") of the input files
FileA == << "a", "-", "w" >>

FileB == << "b" >>

\* the sequences of at most MaxRecords records of a pool
RecordSeqs(pool) ==
  UNION { [1..n -> { pool[i] : i \in 1..Len(pool) }] : n \in 0..MaxRecords }

\* the input directories: no file, or two files that share at most
\* MaxRecords records.  A directory maps a file name to the file's text
Directories(pool) ==
  { << >> }
    \cup UNION { { (FileA :> FileText(SubSeq(s, 1, k)))
                     @@ (FileB :> FileText(SubSeq(s, k + 1, Len(s)))) :
                   k \in 0..Len(s) } : s \in RecordSeqs(pool) }

\* ------------------------------------------------------------------------
\* The state of main
\* ------------------------------------------------------------------------

VARIABLES
  input_dir,             \* INPUT_DIR: file name -> text
  pc,                    \* where main is: "start", "read", "process",
                         \* "done" (totals computed), "returned" (no files)
  fp,                    \* the index in bib_files of the current file
  ei,                    \* the index of the current entry of that file
  bib_files,             \* the sorted file names
  raw_entries_per_file,  \* file name -> entries, for the files read so far
  total_before,
  groups,                \* (strategy, key) -> the items of the bucket
  seen_keys,
  merged_entries,
  total_after,
  removed,
  arg,                   \* the argument of a function called on its own
  results,               \* the values the calls have returned, in order
  merged_file            \* the text written to OUTPUT_FILE, None before

vars ==
  << input_dir, pc, fp, ei, bib_files, raw_entries_per_file, total_before,
     groups, seen_keys, merged_entries, total_after, removed, arg, results,
     merged_file >>

\* the code point of a character of a file name
Ord(c) ==
  IF c = "-" THEN 45
  ELSE IF c = "." THEN 46
  ELSE 96 + CHOOSE i \in 1..Len(LowerCase) : LowerCase[i] = c

\* x < y for two strings (str comparison by code point)
StrLess(x, y) ==
  \/ Len(x) < Len(y) /\ SubSeq(y, 1, Len(x)) = x
  \/ \E i \in 1..Len(x) :
       /\ i <= Len(y)
       /\ SubSeq(x, 1, i - 1) = SubSeq(y, 1, i - 1)
       /\ Ord(x[i]) < Ord(y[i])

\* the path of the file with base name x, below INPUT_DIR
Path(x) == x \o << ".", "b", "i", "b" >>

\* sorted(glob.glob(INPUT_DIR / "*.bib"))
RECURSIVE sorted(_)
sorted(names) ==
  IF names = {} THEN << >>
  ELSE Let(CHOOSE x \in names : \A y \in names \ { x } : StrLess(Path(x), Path(y)),
           LAMBDA first : << first >> \o sorted(names \ { first }))

\* the state before main runs on one of the given directories
MainInit(dirs) ==
  /\ input_dir \in dirs
  /\ pc = "start"
  /\ fp = 1
  /\ ei = 1
  /\ bib_files = << >>
  /\ raw_entries_per_file = << >>
  /\ total_before = 0
  /\ groups = << >>
  /\ seen_keys = {}
  /\ merged_entries = << >>
  /\ total_after = 0
  /\ removed = 0
  /\ arg = << >>
  /\ results = << >>
  /\ merged_file = None

Init == MainInit(Directories(Pool))

InitTitles == MainInit(Directories(TitlePool))

InitStrategies == MainInit(Directories(StrategyPool))

\* lines 273-276, no .bib file: main prints a message and returns
NoFiles ==
  /\ pc = "start"
  /\ DOMAIN input_dir = {}
  /\ pc' = "returned"
  /\ UNCHANGED << input_dir, fp, ei, bib_files, raw_entries_per_file,
                  total_before, groups, seen_keys, merged_entries,
                  total_after, removed, arg, results, merged_file >>

\* line 273 with files present
ListFiles ==
  /\ pc = "start"
  /\ DOMAIN input_dir # {}
  /\ bib_files' = sorted(DOMAIN input_dir)
  /\ pc' = "read"
  /\ UNCHANGED << input_dir, fp, ei, raw_entries_per_file, total_before,
                  groups, seen_keys, merged_entries, total_after, removed,
                  arg, results, merged_file >>

\* one iteration of the loop of lines 281-286: read and tokenize a file
ReadFile ==
  /\ pc = "read"
  /\ fp <= Len(bib_files)
  /\ \E entries \in { extract_entries(input_dir[bib_files[fp]]) } :
       /\ raw_entries_per_file' =
             raw_entries_per_file @@ (bib_files[fp] :> entries)
       /\ total_before' = total_before + Len(entries)
  /\ IF fp = Len(bib_files)
       THEN pc' = "process" /\ fp' = 1
       ELSE pc' = pc /\ fp' = fp + 1
  /\ UNCHANGED << input_dir, ei, bib_files, groups, seen_keys,
                  merged_entries, total_after, removed, arg, results, merged_file >>

\* x or y for str | None
Or(x, y) == Let(x, LAMBDA v : IF v # None /\ v # << >> THEN v ELSE y)

\* a faulty bucket: the strategy is left out of the key of groups
bucket_by_key(strategy, key) == << "ANY", key >>

\* the key of groups and the member of seen_keys: the tuple (strategy, key)
bucket(strategy, key) == << strategy, key >>

\* a faulty is_kept: seen_keys is not consulted, every item is kept
is_kept_always(seen, k) == TRUE

\* lines 318-323: the item is kept when its bucket has not been seen
is_kept(seen, k) == k \notin seen

\* a faulty groups_append: the item replaces the members of its bucket
groups_replace(g, k, item) ==
  IF k \in DOMAIN g THEN [g EXCEPT ![k] = << item >>]
  ELSE g @@ (k :> << item >>)

\* a faulty groups_append: an item that is dropped is not recorded
groups_append_kept_only(g, k, item) ==
  IF ~item.kept THEN g
  ELSE IF k \in DOMAIN g THEN [g EXCEPT ![k] = Append(@, item)]
  ELSE g @@ (k :> << item >>)

\* line 325, groups[(strategy, key)].append(item) on a defaultdict(list)
groups_append(g, k, item) ==
  IF k \in DOMAIN g THEN [g EXCEPT ![k] = Append(@, item)]
  ELSE g @@ (k :> << item >>)

\* the item of lines 305-316 for the record with text updated and key sk
Item(updated, sk, kept, file, parts, at) ==
  [ kept         |-> kept,
    file         |-> file,
    bib_id       |-> get_bibtex_id(updated),
    title_raw    |-> Or(get_field(updated, << "t","i","t","l","e" >>), << >>),
    year         |-> Or(get_field(updated, << "y","e","a","r" >>), << >>),
    source       |-> Or(get_field(updated, << "s","o","u","r","c","e" >>),
                        Or(parts[2], << >>)),
    actualSearch |-> parts[1],
    strategy     |-> sk[1],
    key          |-> sk[2],
    entry_text   |-> updated,
    pos          |-> at ]          \* which object the item is

\* the body of the inner loop of lines 295-325 for the entry e of the file
\* of index f
ProcessRecord(f, e) ==
  \E parts \in { split_filename_parts(bib_files[f]) } :
  \E updated \in { append_fields(raw_entries_per_file[bib_files[f]][e],
                                  parts[1], parts[2]) } :
  \E sk \in { build_dedupe_key(updated) } :
  \E kept \in { is_kept(seen_keys, bucket(sk[1], sk[2])) } :
    /\ seen_keys' = IF kept THEN seen_keys \cup { bucket(sk[1], sk[2]) }
                            ELSE seen_keys
    /\ merged_entries' =
          IF kept THEN Append(merged_entries, updated) ELSE merged_entries
    /\ groups' = groups_append(groups, bucket(sk[1], sk[2]),
                               Item(updated, sk, kept, bib_files[f], parts,
                                    << f, e >>))

\* one iteration of the inner loop of lines 295-325
ProcessEntry ==
  /\ pc = "process"
  /\ fp <= Len(bib_files)
  /\ ei <= Len(raw_entries_per_file[bib_files[fp]])
  /\ ProcessRecord(fp, ei)
  /\ ei' = ei + 1
  /\ UNCHANGED << input_dir, pc, fp, bib_files, raw_entries_per_file,
                  total_before, total_after, removed, arg, results, merged_file >>

\* the inner loop of line 295 is exhausted: the outer loop takes the next file
NextFile ==
  /\ pc = "process"
  /\ fp <= Len(bib_files)
  /\ ei > Len(raw_entries_per_file[bib_files[fp]])
  /\ fp' = fp + 1
  /\ ei' = 1
  /\ UNCHANGED << input_dir, pc, bib_files, raw_entries_per_file,
                  total_before, groups, seen_keys, merged_entries,
                  total_after, removed, arg, results, merged_file >>

\* a faulty JoinEntries: the entries are joined by a single newline
join_entries_single(entries) ==
  Concat([i \in 1..Len(entries) |->
            (IF i > 1 THEN << "\n" >> ELSE << >>) \o entries[i]])

\* "\n\n".join(entries)
JoinEntries(entries) ==
  Concat([i \in 1..Len(entries) |->
            (IF i > 1 THEN << "\n", "\n" >> ELSE << >>) \o entries[i]])

\* lines 327-333, after the loops: the totals, and the merged file is
\* written (the report of lines 340-391 is not modelled)
Finish ==
  /\ pc = "process"
  /\ fp > Len(bib_files)
  /\ total_after' = Len(merged_entries)
  /\ removed' = total_before - Len(merged_entries)
  /\ merged_file' = JoinEntries(merged_entries) \o << "\n" >>
  /\ pc' = "done"
  /\ UNCHANGED << input_dir, fp, ei, bib_files, raw_entries_per_file,
                  total_before, groups, seen_keys, merged_entries, arg,
                  results >>

Next ==
  \/ NoFiles
  \/ ListFiles
  \/ ReadFile
  \/ ProcessEntry
  \/ NextFile
  \/ Finish

Spec == Init /\ [][Next]_vars

\* main on records that differ in their titles only
SpecTitles == InitTitles /\ [][Next]_vars

\* main on records of different strategies
SpecStrategies == InitStrategies /\ [][Next]_vars

\* --- the pass with the processing order of the records left open

\* the records processed so far, as <<index of the file, index of the entry>>
Processed == { results[n] : n \in 1..Len(results) }

\* the records still to be processed
Unprocessed ==
  { p \in UNION { { << f, e >> : e \in 1..Len(raw_entries_per_file[bib_files[f]]) } :
                    f \in 1..Len(bib_files) } : p \notin Processed }

\* the body of the loop of lines 295-325 on any record not yet processed
ProcessAny ==
  /\ pc = "process"
  /\ \E p \in Unprocessed :
       /\ ProcessRecord(p[1], p[2])
       /\ results' = Append(results, p)
  /\ UNCHANGED << input_dir, pc, fp, ei, bib_files, raw_entries_per_file,
                  total_before, total_after, removed, arg, merged_file >>

\* lines 327-333, once every record is processed
FinishAny ==
  /\ pc = "process"
  /\ Unprocessed = {}
  /\ total_after' = Len(merged_entries)
  /\ removed' = total_before - Len(merged_entries)
  /\ merged_file' = JoinEntries(merged_entries) \o << "\n" >>
  /\ pc' = "done"
  /\ UNCHANGED << input_dir, fp, ei, bib_files, raw_entries_per_file,
                  total_before, groups, seen_keys, merged_entries, arg,
                  results >>

NextAnyOrder ==
  \/ NoFiles
  \/ ListFiles
  \/ ReadFile
  \/ ProcessAny
  \/ FinishAny

SpecAnyOrder == Init /\ [][NextAnyOrder]_vars

\* ------------------------------------------------------------------------
\* The functions called on their own
\* ------------------------------------------------------------------------

\* the state before a function is called on one of the given arguments
CallInit(args) ==
  /\ input_dir = << >>
  /\ pc = "call"
  /\ fp = 1
  /\ ei = 1
  /\ bib_files = << >>
  /\ raw_entries_per_file = << >>
  /\ total_before = 0
  /\ groups = << >>
  /\ seen_keys = {}
  /\ merged_entries = << >>
  /\ total_after = 0
  /\ removed = 0
  /\ arg \in args
  /\ results = << >>
  /\ merged_file = None

\* the call returns value
Return(value) ==
  /\ pc = "call"
  /\ results' = << value >>
  /\ pc' = "return"
  /\ UNCHANGED << input_dir, fp, ei, bib_files, raw_entries_per_file,
                  total_before, groups, seen_keys, merged_entries,
                  total_after, removed, arg, merged_file >>

\* --- build_dedupe_key on records made of five optional fields

\* values of a doi field: well formed, not of the DOI shape, too few digits
DoiWellFormed == << "1","0",".","1","0","0","0","/","a","b" >>

DoiMalformed == << "b","a","d" >>

DoiShortPrefix == << "1","0",".","1","2","/","x" >>

\* values of a url field: a resolver link to a DOI, a link without a DOI
UrlResolver ==
  << "h","t","t","p","s",":","/","/","d","o","i",".","o","r","g","/",
     "1","0",".","1","0","0","0","/","C","D","." >>

UrlPlain == << "h","t","t","p",":","/","/","x",".","o","r","g","/","a" >>

\* values of the title, year and abstract fields
TitleText == << "A","b"," ","c" >>

YearText == << "2","0","2","0" >>

YearUndated == << "n",".","d","." >>

AbstractText == << "A","b"," ","c" >>

\* a title and an abstract of punctuation only
TitlePunctuation == << "?","!" >>

AbstractPunctuation == << ".",".","." >>

\* the fields of a record: None for a field the record does not have
KeyFields ==
  [ doi      : { None, << >>, DoiWellFormed, DoiMalformed, DoiShortPrefix },
    url      : { None, UrlResolver, UrlPlain },
    title    : { None, << >>, TitleText, TitlePunctuation },
    year     : { None, YearText, YearUndated },
    abstract : { None, AbstractText, AbstractPunctuation } ]

\* the line of a field in a record, nothing for a field it does not have
FieldLine(name, value) ==
  IF value = None THEN << >>
  ELSE name \o << " ", "=", " ", "{" >> \o value \o << "}", ",", "\n" >>

\* the BibTeX text of the record with the fields f
RecordText(f) ==
  << "@", "a", "{", "k", ",", "\n" >>
    \o FieldLine(<< "d","o","i" >>, f.doi)
    \o FieldLine(<< "u","r","l" >>, f.url)
    \o FieldLine(<< "t","i","t","l","e" >>, f.title)
    \o FieldLine(<< "y","e","a","r" >>, f.year)
    \o FieldLine(<< "a","b","s","t","r","a","c","t" >>, f.abstract)
    \o << "}" >>

KeyInit == CallInit(KeyFields)

\* build_dedupe_key(entry_text) on the text of the record arg
BuildKey == Return(build_dedupe_key(RecordText(arg)))

KeyNext == BuildKey

KeySpec == KeyInit /\ [][KeyNext]_vars

\* --- _normalize_doi on raw values

\* what a raw value can start with
DoiPrefixes ==
  { << >>,
    << "h","t","t","p","s",":","/","/","d","o","i",".","o","r","g","/" >>,
    << "h","t","t","p",":","/","/","d","x",".","d","o","i",".","o","r",
       "g","/" >>,
    << "d","o","i",":" >>,
    << "D","O","I",":"," " >> }

\* what follows: DOIs, DOI-like values with white space inside, values that
\* are not of the DOI shape
DoiCores ==
  { << >>,
    << "1","0",".","1","0","0","0","/","X","Y","Z","1","2","3" >>,
    << "1","0",".","1","0","0","0","/","a","b" >>,
    << "1","0","."," ","1","0","0","0","/","a","\t","b" >>,
    << "1","0",".","1","0","0","0","/","a"," ","b" >>,
    << "1","0",".","1","2","/","x" >>,
    << "b","a","d" >> }

\* what a raw value can end with
DoiSuffixes ==
  { << >>,
    << "." >>,
    << " ",";" >>,
    << "," >>,
    << "?","x" >> }

DoiInputs ==
  { p \o c \o s : p \in DoiPrefixes, c \in DoiCores, s \in DoiSuffixes }

DoiInit == CallInit(DoiInputs)

\* _normalize_doi(raw) on the raw value arg
NormalizeDoi == Return(_normalize_doi(arg))

DoiNext == NormalizeDoi

DoiSpec == DoiInit /\ [][DoiNext]_vars

\* --- _norm_text on short strings

\* the longest string _norm_text is called on
MaxLen == 3

\* the characters of those strings: letters of both cases, an accented
\* letter, ASCII and fullwidth braces, the characters of tags, commands,
\* character references and percent escapes, punctuation and the space
NormAlphabet ==
  { "x", "Z", "U+00E9", "{", "U+FF5B", "<", ">", "\\", "&", ";", "l", "t",
    "%", "2", "6", "-", " " }

NormInputs == UNION { [1..n -> NormAlphabet] : n \in 0..MaxLen }

NormInit == CallInit(NormInputs)

\* _norm_text(s) on the string arg
Normalize == Return(_norm_text(arg))

\* _norm_text on the value the first call returned
NormalizeAgain ==
  /\ pc = "return"
  /\ Len(results) = 1
  /\ results' = Append(results, _norm_text(results[1]))
  /\ UNCHANGED << input_dir, pc, fp, ei, bib_files, raw_entries_per_file,
                  total_before, groups, seen_keys, merged_entries,
                  total_after, removed, arg, merged_file >>

NormNext ==
  \/ Normalize
  \/ NormalizeAgain

NormSpec == NormInit /\ [][NormNext]_vars

\* --- the tokenizers on texts made of a few pieces

\* the largest number of pieces of a text
MaxPieces == 5

\* the pieces: the head of a brace-style record that process_text_add_type
\* leaves alone, the head of a parenthesis-style record with white space
\* and a hyphen in it, the closing delimiters and a character between records
TokPieces ==
  { << "@", "s", "t", "r", "i", "n", "g", "{" >>,
    << "@", " ", "b", "-", "c", " ", "(" >>,
    << "}" >>, << ")" >>, << "x" >> }

TokInputs ==
  { Concat(s) : s \in UNION { [1..n -> TokPieces] : n \in 0..MaxPieces } }

\* the next call of a sequence of calls on arg returns value
Then(from, to, value) ==
  /\ pc = from
  /\ results' = Append(results, value)
  /\ pc' = to
  /\ UNCHANGED << input_dir, fp, ei, bib_files, raw_entries_per_file,
                  total_before, groups, seen_keys, merged_entries,
                  total_after, removed, arg, merged_file >>

TokInit == CallInit(TokInputs)

\* Add_type.extract_bibtex_entries(text) on the text arg
ExtractBibtexEntries == Then("call", "extracted", extract_bibtex_entries(arg))

\* Add_type.process_text_add_type(text)
ProcessTextAddType == Then("extracted", "processed", process_text_add_type(arg))

\* Keywords.split_entries(bibtext)
SplitEntries == Then("processed", "split", split_entries(arg))

\* Unique.extract_entries(text)
ExtractEntries == Then("split", "return", extract_entries(arg))

TokNext ==
  \/ ExtractBibtexEntries
  \/ ProcessTextAddType
  \/ SplitEntries
  \/ ExtractEntries

TokSpec == TokInit /\ [][TokNext]_vars


\* --- the value decoder of Keywords.py on short strings

\* the largest length of a string handed to the value decoder
MaxValueLen == 4

\* the delimiters, the escape character, the concatenation operator, the
\* field separator, a letter and a space
ValueAlphabet == { "{", "}", "\"", "\\", "#", ",", "a", " " }

ValueInputs == UNION { [1..n -> ValueAlphabet] : n \in 0..MaxValueLen }

ValueInit == CallInit(ValueInputs)

\* read_braced(s, i) on the string arg at the offset i of a "{"
ReadBraced ==
  \E i \in { j \in 0..(Len(arg) - 1) : At(arg, j) = "{" } :
    Return(<< "read_braced", i, read_braced(arg, i) >>)

\* read_quoted(s, i) at the offset i of a quote
ReadQuoted ==
  \E i \in { j \in 0..(Len(arg) - 1) : At(arg, j) = "\"" } :
    Return(<< "read_quoted", i, read_quoted(arg, i) >>)

\* read_value(s, i) at any offset up to the end of the string
ReadValue ==
  \E i \in 0..Len(arg) :
    Return(<< "read_value", i, read_value(arg, i) >>)

ValueNext ==
  \/ ReadBraced
  \/ ReadQuoted
  \/ ReadValue

ValueSpec == ValueInit /\ [][ValueNext]_vars

\* --- parse_fields on record bodies made of a few pieces

\* the largest number of pieces of a record body
MaxFieldPieces == 4

\* the pieces: a name with a digit and a hyphen and its "=", a name with an
\* underscore and a colon, "=", a brace-delimited and a quote-delimited
\* sub-value, the concatenation operator, the separator, and a bare word
FieldPieces ==
  { << "a", "-", "1", "=" >>, << "B", "_", ":" >>, << "=" >>,
    << "{", "x", "}" >>, << "\"", "y", "\"" >>, << "#" >>, << "," >>,
    << "z", " " >> }

FieldInputs ==
  { Concat(s) : s \in UNION { [1..n -> FieldPieces] : n \in 0..MaxFieldPieces } }

FieldsInit == CallInit(FieldInputs)

\* parse_fields(body_text) on the record body arg
ParseFields == Return(<< "parse_fields", 0, parse_fields(arg) >>)

FieldsNext == ParseFields

FieldsSpec == FieldsInit /\ [][FieldsNext]_vars

\* --- the field query on records made of a few field lines

\* the largest number of field lines of a record
MaxQueryFields == 3

\* a field of a record: its name as written, its opening and closing
\* delimiter and its value
QueryFields ==
  { << << "t","i","t","l","e" >>, "\"", "\"", << "A" >> >>,
    << << "t","i","t","l","e" >>, "{", "}", << "B" >> >>,
    << << "T","I","T","L","E" >>, "{", "}", << "C" >> >>,
    << << "y","e","a","r" >>, "{", "}", << "1" >> >> }

\* the names a query asks for
QueryNames == { << "t","i","t","l","e" >>, << "y","e","a","r" >> }

QueryInputs == UNION { [1..n -> QueryFields] : n \in 0..MaxQueryFields }

\* the line of the field f in a record
QueryLine(f) ==
  << " " >> \o f[1] \o << " ", "=", " ", f[2] >> \o f[4] \o << f[3], ",", "\n" >>

\* the BibTeX text of the record with the fields fs
QueryText(fs) ==
  << "@", "a", "{", "k", ",", "\n" >>
    \o Concat([k \in 1..Len(fs) |-> QueryLine(fs[k])]) \o << "}" >>

QueryInit == CallInit(QueryInputs)

\* Unique.get_field(entry_text, field) on the text of the record arg
GetField ==
  \E field \in QueryNames :
    Return(<< "get_field", field, get_field(QueryText(arg), field) >>)

\* Screening.extract_all_fields(entry_text)
ExtractAllFields ==
  Return(<< "extract_all_fields", << >>, extract_all_fields(QueryText(arg)) >>)

QueryNext ==
  \/ GetField
  \/ ExtractAllFields

QuerySpec == QueryInit /\ [][QueryNext]_vars

\* --- record augmentation (append_fields, insert_type_field,
\* --- process_text_add_type) on records made of a few field lines

\* the largest number of field lines of a record
MaxLines == 3

LF == << "\n" >>

CRLF == << "\r", "\n" >>

\* a field line of a record: its indent, its name as written and its value;
\* the value of the last one holds the text "type =" but is no type field
AugLines ==
  { << << " ", " " >>, << "x" >>, << "1" >> >>,
    << << "\t" >>, << "y" >>, << "2" >> >>,
    << << " ", " " >>, << "S","o","u","r","c","e" >>, << "S" >> >>,
    << << " ", " " >>, << "a","c","t","u","a","l","S","e","a","r","c","h" >>,
       << "Q" >> >>,
    << << " ", " " >>, << "T","Y","P","E" >>, << "T" >> >>,
    << << "\t" >>, << "n" >>, << "a"," ","t","y","p","e"," ","="," ","b" >> >> }

\* the records: an entry type, a citation key with or without its comma, a
\* line terminator and the field lines; a key without a comma has no fields
AugInputs ==
  { r \in [ type  : { << "m","i","s","c" >>, << "S","t","r","i","n","g" >> },
            key   : { << "k", "," >>, << "k" >> },
            nl    : { LF, CRLF },
            lines : UNION { [1..n -> AugLines] : n \in 0..MaxLines } ] :
      r.key = << "k" >> => r.lines = << >> }

\* the text of the field line l with the line terminator nl
AugLine(l, nl) ==
  l[1] \o l[2] \o << " ", "=", " ", "{" >> \o l[3] \o << "}", "," >> \o nl

\* the BibTeX text of the record r
AugText(r) ==
  << "@" >> \o r.type \o << "{" >> \o r.key \o r.nl
    \o Concat([k \in 1..Len(r.lines) |-> AugLine(r.lines[k], r.nl)])
    \o << "}" >>

\* the search string and the source that main derives from a file name
ActualSearchValue == << "q" >>

SourceValues == { None, << "F" >> }

AugInit == CallInit(AugInputs)

\* append_fields(entry_text, actual_search, source_val) on the record arg
AppendFields ==
  \E source_val \in SourceValues :
    Return(<< "append_fields", source_val,
              append_fields(AugText(arg), ActualSearchValue, source_val) >>)

\* insert_type_field(raw_entry, type_value) as line 169 calls it: on a record
\* that is no comment, preamble or string block and has no type field, with
\* the derived type value
InsertTypeField ==
  /\ Lower(arg.type) \notin { << "c","o","m","m","e","n","t" >>,
                              << "p","r","e","a","m","b","l","e" >>,
                              << "s","t","r","i","n","g" >> }
  /\ ~has_type_field(AugText(arg))
  /\ Return(<< "insert_type_field", derive_type_value(arg.type),
               insert_type_field(AugText(arg), derive_type_value(arg.type)) >>)

\* process_text_add_type(text) on a text that holds the record arg alone
AddType ==
  Return(<< "process_text_add_type", << >>,
            process_text_add_type(AugText(arg)) >>)

AugNext ==
  \/ AppendFields
  \/ InsertTypeField
  \/ AddType

AugSpec == AugInit /\ [][AugNext]_vars

\* --- the loops of the tokenizers, one iteration at a time

\* the largest number of pieces of a text that is scanned
MaxScanPieces == 4

ScanInputs ==
  { Concat(s) : s \in UNION { [1..n -> TokPieces] : n \in 0..MaxScanPieces } }

ScanInit == CallInit(ScanInputs)

\* the state of a loop: the scan offset i and the entries found so far
LoopState == results[Len(results)]

\* the loop of the function at pc ends: the function returns its entries
Break(from) ==
  /\ pc = from
  /\ pc' = "return"
  /\ UNCHANGED << input_dir, fp, ei, bib_files, raw_entries_per_file,
                  total_before, groups, seen_keys, merged_entries,
                  total_after, removed, arg, results, merged_file >>

\* lines 74-75 of Add_type.py: entries = [], i = 0
BeginBibtexEntries == Then("call", "extract_bibtex_entries", << 0, << >> >>)

\* lines 77-79: RE_ENTRY_HEAD finds no head from offset i on
BibtexEntriesBreak ==
  /\ pc = "extract_bibtex_entries"
  /\ HeadSearch(arg, LoopState[1] + 1) = 0
  /\ Break("extract_bibtex_entries")

\* lines 77-104: one iteration that finds a head; an unbalanced candidate is
\* abandoned (line 100), a balanced one is appended (lines 102-104)
BibtexEntriesIteration ==
  /\ pc = "extract_bibtex_entries"
  /\ \E a \in { HeadSearch(arg, LoopState[1] + 1) } :
       /\ a # 0
       /\ \E p \in { DelimClose(arg, HeadAt(arg, a)) } :
            Then("extract_bibtex_entries", "extract_bibtex_entries",
                 IF p = 0
                   THEN << ResumeAfter(arg, HeadAt(arg, a)) - 1, LoopState[2] >>
                   ELSE << p, Append(LoopState[2],
                                     << HeadType(arg, a), SubSeq(arg, a, p),
                                        a - 1, p >>) >>)

\* lines 60-62 of Unique.py: entries = [], i = 0
BeginEntries == Then("call", "extract_entries", << 0, << >> >>)

\* lines 64-66: ENTRY_START_RE finds no start from offset i on
EntriesBreak ==
  /\ pc = "extract_entries"
  /\ EntrySearch(arg, LoopState[1] + 1) = 0
  /\ Break("extract_entries")

\* lines 64-87: one iteration that finds a start; the entry ends behind its
\* closing brace (lines 79-82) or at the end of the text (lines 85-87)
EntriesIteration ==
  /\ pc = "extract_entries"
  /\ \E start \in { EntrySearch(arg, LoopState[1] + 1) } :
       /\ start # 0
       /\ \E close \in { BraceClose(arg, EntryStartAt(arg, start)) } :
            Then("extract_entries", "extract_entries",
                 IF close # 0
                   THEN << close, Append(LoopState[2], SubSeq(arg, start, close)) >>
                   ELSE << Len(arg),
                           Append(LoopState[2], SubSeq(arg, start, Len(arg))) >>)

ScanNext ==
  \/ BeginBibtexEntries
  \/ BibtexEntriesBreak
  \/ BibtexEntriesIteration
  \/ BeginEntries
  \/ EntriesBreak
  \/ EntriesIteration

ScanSpec == ScanInit /\ [][ScanNext]_vars

\* the loops are not stopped from outside: an iteration that can be taken
\* is taken
ScanLive == ScanSpec /\ WF_vars(ScanNext)

\* --- the screening pass (main of Screening.py) over files of a few entries

\* the largest number of entries of an input file
MaxEntries == 3

\* the entries of the input files: the field lines <<name, value as
\* written>> of each, and whether its closing brace is there
ScreenYear(y) == << << "y","e","a","r" >>, << "{" >> \o y \o << "}" >> >>

ScreenType(t) == << << "t","y","p","e" >>, << "{" >> \o t \o << "}" >> >>

ScreenWords(w) ==
  << << "s","e","a","r","c","h","W","o","r","d" >>, << "{" >> \o w \o << "}" >> >>

ScreenLanguage(l) ==
  << << "l","a","n","g","u","a","g","e" >>, << "{" >> \o l \o << "}" >> >>

Article == << "a","r","t","i","c","l","e" >>

ScreenEntries ==
  { [lines |-> << ScreenYear(<< "2","0","2","0" >>), ScreenType(Article),
                  ScreenWords(<< "a",";","b" >>) >>, closed |-> TRUE],
    [lines |-> << ScreenYear(<< "2","0","2","0" >>), ScreenType(Article),
                  ScreenLanguage(<< "E","n","g","l","i","s","h" >>),
                  ScreenWords(<< "a",";","b" >>) >>, closed |-> TRUE],
    [lines |-> << ScreenYear(<< "1","9","9","9" >>), ScreenType(Article),
                  ScreenWords(<< "a",";","b" >>) >>, closed |-> TRUE],
    [lines |-> << ScreenYear(<< "1","9","9","9" >>),
                  ScreenType(<< "b","o","o","k" >>) >>, closed |-> TRUE],
    [lines |-> << ScreenYear(<< "2","0","2","0" >>),
                  ScreenType(<< "b","o","o","k" >>),
                  ScreenWords(<< "a",";","b" >>) >>, closed |-> TRUE],
    [lines |-> << ScreenYear(<< "2","0","2","0" >>), ScreenType(Article),
                  ScreenLanguage(<< "f","r","e","n","c","h" >>),
                  ScreenWords(<< "a",";","b" >>) >>, closed |-> TRUE],
    [lines |-> << ScreenYear(<< "2","0","2","0" >>), ScreenType(Article),
                  ScreenWords(<< "a" >>) >>, closed |-> TRUE],
    [lines |-> << ScreenYear(<< "2","0","2","0" >>), ScreenType(Article),
                  << << "n","o","t","e" >>, << >> >>,
                  ScreenWords(<< "a",";","b" >>) >>, closed |-> TRUE],
    [lines |-> << ScreenYear(<< "2","0","2","0" >>), ScreenType(Article),
                  ScreenWords(<< "a",";","b" >>) >>, closed |-> FALSE] }

ScreenInputs == UNION { [1..n -> ScreenEntries] : n \in 0..MaxEntries }

\* the text of the entry e in a file, a blank line behind it
ScreenText(e) ==
  << "@","a","{","k",",","\n" >>
    \o Concat([k \in 1..Len(e.lines) |->
                 << " " >> \o e.lines[k][1] \o << " ","="," " >> \o e.lines[k][2]
                   \o << ",","\n" >>])
    \o (IF e.closed THEN << "}" >> ELSE << >>) \o << "\n","\n" >>

\* the content of the input file arg
Content == Concat([k \in 1..Len(arg) |-> ScreenText(arg[k])])

ScreenInit == CallInit(ScreenInputs)

\* lines 330-344 of main: the lists and buckets are empty, no entry is read
BeginMain ==
  Then("call", "main",
       [i |-> 0, total |-> 0, kept_entries |-> << >>,
        removed_by_bucket |-> << >>, report_only_by_bucket |-> << >>])

\* the entry that iter_entries_with_raw yields next, << >> when it ends
NextEntry ==
  Let(StartReSearch(Content, LoopState.i), LAMBDA p :
    IF p = 0 THEN << >> ELSE EntryAt(Content, p))

\* lines 346-381: extract_all_fields returns and every filter returns true;
\* the entry is kept, and reported when its language is missing
MainKeep ==
  /\ pc = "main"
  /\ \E entry \in { NextEntry } :
       /\ entry # << >>
       /\ \E fields \in { extract_all_fields(entry[1]) } :
            /\ fields # IndexError
            /\ FailedFilter(active_filters, entry[2], fields, entry[1]) = 0
            /\ Then("main", "main",
                 [LoopState EXCEPT
                    !.i = entry[3],
                    !.total = @ + 1,
                    !.kept_entries =
                       Append(@, WithLineFeed(
                                   ensure_type_field_as_class(entry[1], entry[2]))),
                    !.report_only_by_bucket =
                       IF Strip(GetOr(fields, << "l","a","n","g","u","a","g","e" >>,
                                      << >>)) = << >>
                         THEN AppendTo(@, "language",
                                IncludedComment(allowed_langs)
                                  \o WithLineFeed(entry[1]))
                         ELSE @])

\* lines 346-365 and 383-393: a filter returns false; the entry goes to the
\* bucket of that filter
MainRemove ==
  /\ pc = "main"
  /\ \E entry \in { NextEntry } :
       /\ entry # << >>
       /\ \E fields \in { extract_all_fields(entry[1]) } :
            /\ fields # IndexError
            /\ \E k \in { FailedFilter(active_filters, entry[2], fields, entry[1]) } :
                 /\ k # 0
                 /\ Then("main", "main",
                      [LoopState EXCEPT
                         !.i = entry[3],
                         !.total = @ + 1,
                         !.removed_by_bucket =
                            AppendTo(@, active_filters[k].bucket,
                              WithLineFeed(
                                IF active_filters[k].bucket = "language"
                                  THEN RemovedComment(allowed_langs,
                                         Strip(GetOr(fields,
                                           << "l","a","n","g","u","a","g","e" >>,
                                           << >>)))
                                         \o entry[1]
                                  ELSE entry[1]))])

\* lines 346-348: extract_all_fields raises IndexError outside the try of
\* line 355; main ends with the exception and writes nothing
MainRaise ==
  /\ pc = "main"
  /\ \E entry \in { NextEntry } :
       /\ entry # << >>
       /\ extract_all_fields(entry[1]) = IndexError
       /\ Then("main", "raise", IndexError)

\* the number of entries in the lists of by_bucket
RECURSIVE CountEntries(_)
CountEntries(by_bucket) ==
  IF by_bucket = << >> THEN 0
  ELSE Len(by_bucket[1][2]) + CountEntries(Tail(by_bucket))

\* lines 395-414: iter_entries_with_raw has ended; the kept entries, the
\* report of every bucket (its bucket, the number of its entries, its text)
\* and the summary are written
MainWrite ==
  /\ pc = "main"
  /\ NextEntry = << >>
  /\ Then("main", "return",
          [output_file |-> JoinLines(LoopState.kept_entries),
           reports |->
             { << b,
                  Len(GetOr(LoopState.removed_by_bucket, b, << >>)
                        \o GetOr(LoopState.report_only_by_bucket, b, << >>)),
                  Concat(GetOr(LoopState.removed_by_bucket, b, << >>)
                           \o GetOr(LoopState.report_only_by_bucket, b, << >>)) >> :
               b \in { LoopState.removed_by_bucket[k][1] :
                         k \in 1..Len(LoopState.removed_by_bucket) }
                     \cup { LoopState.report_only_by_bucket[k][1] :
                              k \in 1..Len(LoopState.report_only_by_bucket) } },
           total |-> LoopState.total,
           kept |-> Len(LoopState.kept_entries),
           total_removed |-> CountEntries(LoopState.removed_by_bucket)])

ScreenNext ==
  \/ BeginMain
  \/ MainKeep
  \/ MainRemove
  \/ MainRaise
  \/ MainWrite

ScreenSpec == ScreenInit /\ [][ScreenNext]_vars

\* ------------------------------------------------------------------------
\* Properties of the deduplication pass
\* ------------------------------------------------------------------------

\* the items of all buckets
Items == UNION { { groups[k][i] : i \in 1..Len(groups[k]) } : k \in DOMAIN groups }

\* the members of all buckets: <<bucket, index in the bucket>>
Members == UNION { { << k, i >> : i \in 1..Len(groups[k]) } : k \in DOMAIN groups }

\* the tokenized records: <<index of the file, index of the entry in it>>
Tokenized ==
  UNION { { << f, e >> : e \in 1..Len(raw_entries_per_file[bib_files[f]]) } :
          f \in 1..Len(bib_files) }

\* the record at p is processed before the record at q: files in the order
\* of bib_files, records of a file in source order
Before(p, q) == p[1] < q[1] \/ (p[1] = q[1] /\ p[2] < q[2])

\* C1: after the deduplication pass, with the files taken in sorted order,
\* every bucket (strategy, key) has exactly one member marked kept, that
\* member is the first record of the bucket in processing order, and every
\* later member of the bucket is marked dropped
C1_FirstOfBucketKept ==
  pc = "done" =>
    /\ \A i \in 1..Len(bib_files) : \A j \in 1..Len(bib_files) :
         i < j => StrLess(Path(bib_files[i]), Path(bib_files[j]))
    /\ \A k \in DOMAIN groups :
         /\ Len(groups[k]) >= 1
         /\ Cardinality({ i \in 1..Len(groups[k]) : groups[k][i].kept }) = 1
         /\ \A i \in 1..Len(groups[k]) :
              /\ groups[k][i].kept = (i = 1)
              /\ i > 1 => Before(groups[k][1].pos, groups[k][i].pos)

\* the pass has ended with a bucket of three members from both files
C1_Witness ==
  /\ pc = "done"
  /\ \E k \in DOMAIN groups :
       /\ Len(groups[k]) = 3
       /\ groups[k][1].pos[1] # groups[k][3].pos[1]

\* C2: after the deduplication pass every tokenized record is a member of
\* exactly one bucket, and total_before = number kept + number removed, where
\* the number kept is the number of distinct (strategy, key) pairs and the
\* number removed is the sum over the buckets of (bucket size - 1)
C2_CountsConserved ==
  pc = "done" =>
    /\ \A p \in Tokenized :
         Cardinality({ m \in Members : groups[m[1]][m[2]].pos = p }) = 1
    /\ total_before = Cardinality(Tokenized)
    /\ total_before = total_after + removed
    /\ total_after = Cardinality({ x \in Items : x.kept })
    /\ total_after = Cardinality(DOMAIN groups)
    /\ removed = Cardinality({ m \in Members : m[2] > 1 })

\* the pass has ended with records kept in several buckets and others removed
C2_Witness ==
  /\ pc = "done"
  /\ total_before = 3
  /\ total_after = 2
  /\ removed = 1


\* the tokenized record an item was made of
Raw(x) == raw_entries_per_file[bib_files[x.pos[1]]][x.pos[2]]

\* the items x and y are members of one bucket
SameBucket(x, y) ==
  \E k \in DOMAIN groups :
    /\ \E i \in 1..Len(groups[k]) : groups[k][i] = x
    /\ \E i \in 1..Len(groups[k]) : groups[k][i] = y

\* the normalized DOI of the tokenized record of an item: that of its doi
\* field or else that of its url field, None when neither has one
ItemDoi(x) ==
  Or(_normalize_doi(get_field(Raw(x), << "d", "o", "i" >>)),
     _normalize_doi(get_field(Raw(x), << "u", "r", "l" >>)))

\* the first run of four digits of a year field, None when there is none
YearDigits(year) ==
  IF Truthy(year) /\ YearSearch(year) # 0
    THEN SubSeq(year, YearSearch(year), YearSearch(year) + 3)
    ELSE None

\* the key of the first strategy, in the order DOI, TITLE_YEAR, TITLE,
\* ABSTRACT, FALLBACK, that yields one for the record with the fields f: the
\* normalized DOI of the doi field or else of the url field; else the
\* normalized title, "::" and the four digits of the year field when the
\* record has a title and its year field has four consecutive digits; else
\* the normalized title when it has a title; else the normalized abstract
\* when it has one; else the normalized text of the whole record
ExpectedKey(f) ==
  IF _normalize_doi(f.doi) # None THEN << "DOI", _normalize_doi(f.doi) >>
  ELSE IF _normalize_doi(f.url) # None THEN << "DOI", _normalize_doi(f.url) >>
  ELSE IF Truthy(f.title) /\ YearDigits(f.year) # None
    THEN << "TITLE_YEAR",
            _norm_text(f.title) \o << ":", ":" >> \o YearDigits(f.year) >>
  ELSE IF Truthy(f.title) THEN << "TITLE", _norm_text(f.title) >>
  ELSE IF Truthy(f.abstract) THEN << "ABSTRACT", _norm_text(f.abstract) >>
  ELSE << "FALLBACK", _norm_text(RecordText(f)) >>

\* C3: build_dedupe_key evaluates the strategies in the order DOI,
\* TITLE_YEAR, TITLE, ABSTRACT, FALLBACK and returns the key of the first
\* that yields one (ExpectedKey); a lower-priority strategy is never chosen
\* when a higher-priority one yields a key
C3_CascadeOrder == pc = "return" => results[1] = ExpectedKey(arg)

\* build_dedupe_key has returned a TITLE key for a record that has a
\* malformed doi field, a year field without four digits and an abstract
C3_Witness ==
  /\ pc = "return"
  /\ results[1] = << "TITLE", << "a", "b", " ", "c" >> >>
  /\ arg.doi = DoiMalformed
  /\ arg.year = YearUndated
  /\ arg.abstract = AbstractText

\* C4 as stated: of any two records with the same normalized DOI, both are
\* in the bucket ('DOI', doi), the earlier one is kept and the later one is
\* dropped
C4_EarlierOfAnyTwoKept ==
  pc = "done" =>
    \A x \in Items : \A y \in Items :
      (Before(x.pos, y.pos) /\ ItemDoi(x) # None /\ ItemDoi(x) = ItemDoi(y)) =>
        /\ x.strategy = "DOI" /\ y.strategy = "DOI"
        /\ x.key = ItemDoi(x) /\ y.key = ItemDoi(x)
        /\ SameBucket(x, y)
        /\ x.kept /\ ~y.kept

\* C4, amended: every record that normalizes to a valid DOI, whatever its
\* title, year or abstract is, is a member of the bucket ('DOI', doi); of
\* the records with one DOI the first-processed one is kept and every later
\* one is dropped
C4_SameDoiOneBucket ==
  pc = "done" =>
    \A x \in Items :
      ItemDoi(x) # None =>
        /\ x.strategy = "DOI"
        /\ x.key = ItemDoi(x)
        /\ << "DOI", ItemDoi(x) >> \in DOMAIN groups
        /\ \E i \in 1..Len(groups[<< "DOI", ItemDoi(x) >>]) :
             groups[<< "DOI", ItemDoi(x) >>][i] = x
        /\ x.kept <=> ~(\E y \in Items :
                          Before(y.pos, x.pos) /\ ItemDoi(y) = ItemDoi(x))

\* the pass has ended with two records of one DOI and different titles in
\* one DOI bucket, the earlier kept and the later dropped
C4_Witness ==
  /\ pc = "done"
  /\ \E x \in Items : \E y \in Items :
       /\ Before(x.pos, y.pos)
       /\ ItemDoi(x) # None /\ ItemDoi(x) = ItemDoi(y)
       /\ x.title_raw # y.title_raw
       /\ x.title_raw # << >> /\ y.title_raw # << >>
       /\ SameBucket(x, y)
       /\ x.strategy = "DOI"
       /\ x.kept /\ ~y.kept

\* a title with the punctuation characters deleted and the letters lowercased
Unpunctuated(title) ==
  Lower(SelectSeq(title, LAMBDA c : c \notin Punctuation))

\* a title with every punctuation character replaced by a space, the white
\* space collapsed and trimmed and the letters lowercased
Plain(title) == Strip(CollapseSpace(ReplacePunctuation(Lower(title))))

\* a title made of ASCII letters, digits, spaces and punctuation characters
\* other than & % < and the backslash
IsPlainTitle(title) ==
  \A i \in 1..Len(title) :
    \/ IsAlpha(title[i]) \/ IsDigit(title[i]) \/ title[i] = " "
    \/ title[i] \in Punctuation \ { "&", "%", "<", "\\" }

\* C5 as stated: two records without a DOI whose titles differ only in letter
\* case and in punctuation characters, and whose year fields contain the same
\* four-digit year, have the same ('TITLE_YEAR', key) pair and are in one
\* bucket
C5_PunctuationIgnored ==
  pc = "done" =>
    \A x \in Items : \A y \in Items :
      ( /\ ItemDoi(x) = None /\ ItemDoi(y) = None
        /\ Truthy(x.title_raw) /\ Truthy(y.title_raw)
        /\ Unpunctuated(x.title_raw) = Unpunctuated(y.title_raw)
        /\ YearDigits(x.year) # None
        /\ YearDigits(x.year) = YearDigits(y.year) ) =>
        /\ x.strategy = "TITLE_YEAR" /\ y.strategy = "TITLE_YEAR"
        /\ x.key = y.key
        /\ SameBucket(x, y)

\* C5, amended: two records without a DOI whose plain titles are equal once
\* every punctuation character is replaced by a space, white space is
\* collapsed and trimmed and letters are lowercased, and whose year fields
\* have the same first run of four digits, have the same ('TITLE_YEAR', key)
\* pair, that title followed by "::" and the digits, and are in one bucket,
\* of which the first-processed record is kept
C5_SameTitleYearKey ==
  pc = "done" =>
    \A x \in Items : \A y \in Items :
      ( /\ ItemDoi(x) = None /\ ItemDoi(y) = None
        /\ Truthy(x.title_raw) /\ Truthy(y.title_raw)
        /\ IsPlainTitle(x.title_raw) /\ IsPlainTitle(y.title_raw)
        /\ Plain(x.title_raw) = Plain(y.title_raw)
        /\ YearDigits(x.year) # None
        /\ YearDigits(x.year) = YearDigits(y.year) ) =>
        /\ x.strategy = "TITLE_YEAR" /\ y.strategy = "TITLE_YEAR"
        /\ x.key = Plain(x.title_raw) \o << ":", ":" >> \o YearDigits(x.year)
        /\ y.key = x.key
        /\ SameBucket(x, y)
        /\ Before(x.pos, y.pos) => ~y.kept
        /\ \E z \in Items : SameBucket(x, z) /\ z.kept /\ ~Before(x.pos, z.pos)

\* the pass has ended with two records whose titles and year fields differ
\* in letter case and punctuation in one TITLE_YEAR bucket, the first kept,
\* and a record whose title has a hyphen inside a word kept in another
C5_Witness ==
  /\ pc = "done"
  /\ \E x \in Items : \E y \in Items : \E z \in Items :
       /\ Before(x.pos, y.pos)
       /\ x.title_raw # y.title_raw /\ x.year # y.year
       /\ Plain(x.title_raw) = Plain(y.title_raw)
       /\ x.strategy = "TITLE_YEAR"
       /\ SameBucket(x, y)
       /\ x.kept /\ ~y.kept
       /\ Unpunctuated(z.title_raw) = Unpunctuated(x.title_raw)
       /\ ~SameBucket(x, z)
       /\ z.kept

\* a record without doi, url, title and abstract field
FieldLess(text) ==
  \A field \in { << "d","o","i" >>, << "u","r","l" >>,
                 << "t","i","t","l","e" >>,
                 << "a","b","s","t","r","a","c","t" >> } :
    get_field(text, field) = None

KeyWithoutDoi(f) == build_dedupe_key(RecordText([f EXCEPT !.doi = None]))

\* C7: a record whose doi field has a value that is not of the DOI shape
\* after normalization is keyed like the record without the doi field:
\* build_dedupe_key returns a key, the DOI of the url field when that field
\* has a well-formed one, and otherwise the key of the next strategy that
\* yields one (title with or without year, then abstract, then fallback),
\* never a DOI key
C7_MalformedDoiIsAbsent ==
  (pc = "return" /\ Truthy(arg.doi) /\ _normalize_doi(arg.doi) = None) =>
    /\ Len(results) = 1
    /\ results[1][1] = KeyWithoutDoi(arg)[1]
    /\ results[1][1] # "FALLBACK" => results[1] = KeyWithoutDoi(arg)
    /\ _normalize_doi(arg.url) # None =>
         results[1] = << "DOI", _normalize_doi(arg.url) >>
    /\ _normalize_doi(arg.url) = None =>
         /\ results[1][1] # "DOI"
         /\ Truthy(arg.title) =>
              /\ results[1][1] \in { "TITLE_YEAR", "TITLE" }
              /\ results[1][1] = "TITLE_YEAR" <=> YearDigits(arg.year) # None
         /\ (~Truthy(arg.title) /\ Truthy(arg.abstract)) =>
              results[1] = << "ABSTRACT", _norm_text(arg.abstract) >>
         /\ (~Truthy(arg.title) /\ ~Truthy(arg.abstract)) =>
              results[1] = << "FALLBACK", _norm_text(RecordText(arg)) >>

\* build_dedupe_key has returned the DOI of the url field for a record with
\* a malformed doi field
C7_Witness ==
  /\ pc = "return"
  /\ arg.doi = DoiMalformed
  /\ arg.url = UrlResolver
  /\ arg.title = TitleText
  /\ results[1] = << "DOI", << "1","0",".","1","0","0","0","/","c","d" >> >>

\* C8: two records are members of the same bucket if and only if they have
\* the same strategy and an equal key: the bucket of a record is the pair
\* (strategy, key), and records of different strategies are in different
\* buckets even when their key strings are equal
C8_SameBucketIffSameKey ==
  /\ \A m \in Members :
       m[1] = << groups[m[1]][m[2]].strategy, groups[m[1]][m[2]].key >>
  /\ \A x \in Items : \A y \in Items :
       SameBucket(x, y) <=> (x.strategy = y.strategy /\ x.key = y.key)

\* the pass has ended with two records of different strategies and equal
\* key strings, kept in different buckets
C8_Witness ==
  /\ pc = "done"
  /\ \E x \in Items : \E y \in Items :
       /\ x.strategy = "TITLE" /\ y.strategy = "ABSTRACT"
       /\ x.key = y.key
       /\ ~SameBucket(x, y)
       /\ x.kept /\ y.kept

\* a value of the DOI shape: "10.", four to nine digits, "/" and a suffix
\* without white space
IsDoiShaped(d) ==
  \E n \in 4..9 :
    /\ Len(d) >= n + 5
    /\ SubSeq(d, 1, 3) = << "1", "0", "." >>
    /\ \A k \in 4..(n + 3) : IsDigit(d[k])
    /\ d[n + 4] = "/"
    /\ \A k \in (n + 5)..Len(d) : ~IsSpace(d[k])

\* C9: _normalize_doi returns None or a string that is lowercase, has no
\* white space, no resolver-URL or "doi:" prefix and no trailing " .;,"
\* character and is of the DOI shape; https://doi.org/10.1000/XYZ123.
\* normalizes to 10.1000/xyz123
C9_NormalizedDoiShape ==
  pc = "return" =>
    /\ results[1] # None =>
         /\ results[1] = Lower(results[1])
         /\ \A i \in 1..Len(results[1]) : ~IsSpace(results[1][i])
         /\ results[1][Len(results[1])] \notin { " ", ".", ";", "," }
         /\ IsDoiShaped(results[1])
    /\ arg = << "h","t","t","p","s",":","/","/","d","o","i",".","o","r","g",
                "/","1","0",".","1","0","0","0","/","X","Y","Z","1","2","3",
                "." >> =>
         results[1] = << "1","0",".","1","0","0","0","/","x","y","z","1",
                         "2","3" >>

\* C10: _norm_text(_norm_text(x)) = _norm_text(x) for every string x
C10_Idempotent == Len(results) = 2 => results[2] = results[1]

\* the spans [start, end) of the records extract_bibtex_entries returned
Spans == [e \in 1..Len(results[1]) |-> << results[1][e][3], results[1][e][4] >>]

\* text[start:end] for a 0-based start and an exclusive end
Slice(text, start, end) == SubSeq(text, start + 1, end)

\* C11: the spans of the records extract_bibtex_entries returns are strictly
\* increasing and do not overlap, each starts at or after the end of the one
\* before it, each record is the text of its span, and the spans joined with
\* the text between them are the input; process_text_add_type that inserts
\* nothing returns the input, and the pieces of split_entries joined in
\* order are the input
C11_SpansRebuildInput ==
  pc = "return" =>
    /\ \A e \in 1..Len(Spans) :
         /\ 0 <= Spans[e][1] /\ Spans[e][1] < Spans[e][2]
         /\ Spans[e][2] <= Len(arg)
         /\ e > 1 => Spans[e - 1][2] <= Spans[e][1]
         /\ results[1][e][2] = Slice(arg, Spans[e][1], Spans[e][2])
    /\ Concat([e \in 1..Len(Spans) |->
                 Slice(arg, IF e = 1 THEN 0 ELSE Spans[e - 1][2], Spans[e][1])
                   \o results[1][e][2]])
         \o Slice(arg, IF Spans = << >> THEN 0 ELSE Spans[Len(Spans)][2],
                  Len(arg))
         = arg
    /\ results[2][2] = 0 => results[2][1] = arg
    /\ Concat([e \in 1..Len(results[3]) |-> results[3][e][2]]) = arg

\* the tokenizers have returned for a text of two balanced records with a
\* character between them, into which process_text_add_type inserts nothing
C11_Witness ==
  /\ pc = "return"
  /\ Len(results[1]) = 2
  /\ Spans[1][2] < Spans[2][1]
  /\ Spans[2][2] = Len(arg)
  /\ results[2] = << arg, 0 >>
  /\ Len(results[3]) = 3

\* the number of opening delimiters less the number of closing delimiters
\* of the style of text[k] in text[k..p]
StyleDepth(text, k, p) ==
  IF text[k] = "{"
    THEN Cardinality({ m \in k..p : text[m] = "{" })
           - Cardinality({ m \in k..p : text[m] = "}" })
    ELSE Cardinality({ m \in k..p : text[m] = "(" })
           - Cardinality({ m \in k..p : text[m] = ")" })

\* text[a..k] is an opening marker: "@", a type label that starts with a
\* letter, white space allowed on both sides of it, and "{" or "("
IsHead(text, a, k, label) ==
  /\ a < k /\ k <= Len(text)
  /\ text[a] = "@"
  /\ text[k] \in { "{", "(" }
  /\ Strip(SubSeq(text, a + 1, k - 1)) = label
  /\ label # << >>
  /\ IsAlpha(label[1])
  /\ \A i \in 1..Len(label) : IsAlpha(label[i]) \/ label[i] \in { "_", "-" }

\* C12: every span [start, end) extract_bibtex_entries returns starts at an
\* "@" that is followed by the type label of the record and an opening
\* delimiter, and ends one past the closing delimiter, "}" for "{" and ")"
\* for "(", at which the depth, counted over the delimiters of the opening
\* style only, is zero; the depth is positive at every position before it
C12_SpanMatchesDelimiters ==
  pc = "return" =>
    \A e \in 1..Len(results[1]) :
      \E k \in (Spans[e][1] + 2)..Spans[e][2] :
        /\ IsHead(arg, Spans[e][1] + 1, k, results[1][e][1])
        /\ arg[Spans[e][2]] = (IF arg[k] = "{" THEN "}" ELSE ")")
        /\ StyleDepth(arg, k, Spans[e][2]) = 0
        /\ \A p \in k..(Spans[e][2] - 1) : StyleDepth(arg, k, p) > 0

\* extract_bibtex_entries has returned a parenthesis-style record that has
\* a nested pair of parentheses and a closing brace inside
C12_Witness ==
  /\ pc = "return"
  /\ Len(results[1]) = 1
  /\ results[1][1][1] = << "b", "-", "c" >>
  /\ Spans[1] = << 0, Len(arg) >>
  /\ \E p \in 1..Len(arg) : arg[p] = "}"
  /\ Cardinality({ p \in 1..Len(arg) : arg[p] = "(" }) = 2

\* the index of the opening delimiter of the opening marker that starts at
\* the "@" of index a of text, 0 when no opening marker starts there
MarkerDelim(text, a) ==
  Let(First({ k \in (a + 1)..Len(text) : text[k] \in { "{", "(" } }), LAMBDA k :
    IF k # 0 /\ IsHead(text, a, k, Strip(SubSeq(text, a + 1, k - 1)))
      THEN k ELSE 0)

\* the depth counted from the opening delimiter at index k returns to zero
\* before the end of text
Balances(text, k) == \E p \in k..Len(text) : StyleDepth(text, k, p) = 0

\* C13: a candidate record of extract_bibtex_entries whose depth never
\* returns to zero before the end of the input is not returned, and the scan
\* goes on behind its opening marker: every candidate that balances,
\* also one that lies behind the failed opening, is returned, unless it
\* lies inside a record returned before it
C13_UnbalancedSkipped ==
  pc = "return" =>
    /\ Len(results) = 4
    /\ \A a \in 1..Len(arg) :
         MarkerDelim(arg, a) # 0 =>
           IF Balances(arg, MarkerDelim(arg, a))
             THEN \E e \in 1..Len(Spans) :
                    Spans[e][1] <= a - 1 /\ a - 1 < Spans[e][2]
             ELSE \A e \in 1..Len(Spans) : Spans[e][1] # a - 1

\* extract_bibtex_entries has returned the balanced record that lies behind
\* the opening of a brace-style candidate that does not balance
C13_Witness ==
  /\ pc = "return"
  /\ MarkerDelim(arg, 1) # 0
  /\ arg[MarkerDelim(arg, 1)] = "{"
  /\ ~Balances(arg, MarkerDelim(arg, 1))
  /\ Len(results[1]) = 1
  /\ Spans[1][1] = MarkerDelim(arg, 1)
  /\ Spans[1][2] < Len(arg)

\* the delimiters of a record balance: the depth counted from its first
\* opening delimiter returns to zero
IsBalanced(record) ==
  \E k \in 1..Len(record) :
    /\ record[k] \in { "{", "(" }
    /\ \A j \in 1..(k - 1) : record[j] \notin { "{", "(" }
    /\ Balances(record, k)

\* C14: every record Unique.extract_entries returns, and every piece
\* Keywords.split_entries returns as an entry, has balanced delimiters: a
\* candidate whose braces do not balance before the end of the input is not
\* returned as a record
C14_OnlyBalancedRecords ==
  pc = "return" =>
    /\ \A e \in 1..Len(results[4]) : IsBalanced(results[4][e])
    /\ \A e \in 1..Len(results[3]) :
         results[3][e][1] = "entry" => IsBalanced(results[3][e][2])

\* the call that returned: its function, its offset and its result
Called(name) == pc = "return" /\ results[1][1] = name

Offset == results[1][2]

Result == results[1][3]

\* the offset of the brace that matches the "{" at offset i of s: the first
\* offset behind i up to which as many "}" as "{" were read; Len(s) if none
Matching(s, i) ==
  Min({ j \in (i + 1)..(Len(s) - 1) :
          Cardinality({ k \in i..j : At(s, k) = "{" })
            = Cardinality({ k \in i..j : At(s, k) = "}" }) } \cup { Len(s) })

\* C15: for a value that starts with "{" at offset i and whose brace is
\* matched, read_braced returns the text strictly between that brace and the
\* matching one, nested braces included, and the offset just behind the
\* matching brace.
C15_BracedVerbatim ==
  (Called("read_braced") /\ Matching(arg, Offset) < Len(arg))
    => /\ Result[1] = Sub(arg, Offset + 1, Matching(arg, Offset))
       /\ Result[2] = Matching(arg, Offset) + 1

C15_Witness ==
  /\ Called("read_braced")
  /\ Matching(arg, Offset) < Len(arg)
  /\ Result[1] = << "{", "}" >>
  /\ Result[2] = Offset + 4

\* the number of backslashes directly before offset j of s, behind offset i
BackslashesBefore(s, i, j) ==
  Cardinality({ k \in (i + 1)..(j - 1) :
                  \A q \in k..(j - 1) : At(s, q) = "\\" })

\* the quote at offset i of s is never closed: every later quote has an odd
\* number of backslashes directly before it
Unterminated(s, i) ==
  \A j \in (i + 1)..(Len(s) - 1) :
    At(s, j) = "\"" => BackslashesBefore(s, i, j) % 2 = 1

\* the text behind offset i of s without the backslashes that escape the
\* character behind them
Unescaped(s, i) ==
  Concat([d \in 1..(Len(s) - i - 1) |->
            IF At(s, i + d) = "\\" /\ BackslashesBefore(s, i, i + d) % 2 = 0
              THEN << >> ELSE << At(s, i + d) >>])

\* read_braced on a brace that is never matched returns the rest of the
\* input and its length
UnmatchedBraceRest ==
  (Called("read_braced") /\ Matching(arg, Offset) = Len(arg))
    => Result = << Sub(arg, Offset + 1, Len(arg)), Len(arg) >>

\* read_value at the end of the input returns the empty text, and its end
\* position lies between the start and the length of the input
ValueEndInRange ==
  Called("read_value")
    => /\ Offset = Len(arg) => Result[1] = << >>
       /\ Result[3] \in Offset..Len(arg)

ClosingQuote(s, i) ==
  Min({ j \in (i + 1)..(Len(s) - 1) :
          At(s, j) = "\"" /\ BackslashesBefore(s, i, j) % 2 = 0 } \cup { Len(s) })

\* between the offsets i and e of s every backslash escapes a quote
OnlyQuotesEscaped(s, i, e) ==
  \A j \in (i + 1)..(e - 1) :
    At(s, j) = "\\" => (BackslashesBefore(s, i, j) = 0 /\ At(s, j + 1) = "\"")

RECURSIVE SubValues(_, _)
SubValues(s, i) ==
  Let(SkipSpaceFrom(s, i), LAMBDA b :
    IF b >= Len(s) THEN << << >>, Len(s) >>
    ELSE Let(ReadPart(s, b), LAMBDA part :
           Let(SkipSpaceFrom(s, part[2]), LAMBDA e :
             IF e < Len(s) /\ At(s, e) = "#"
               THEN Let(SubValues(s, e + 1), LAMBDA rest :
                      << part[1] \o rest[1], rest[2] >>)
             ELSE << part[1], IF e < Len(s) /\ At(s, e) = "," THEN e + 1 ELSE e >>)))

\* the fields (name, value) of a record body from offset i on, in source
\* order: separators are skipped, a token that no "=" follows is skipped up
\* to and including the next comma, and a token that "=" follows makes one
\* field of the sub-values behind it
RECURSIVE FieldsInOrder(_, _)
FieldsInOrder(s, i) ==
  Let(Min({ j \in i..(Len(s) - 1) : At(s, j) \notin WhiteSpace \cup { "," } }
            \cup { Len(s) }), LAMBDA b :
    IF b = Len(s) THEN << >>
    ELSE Let(Min({ j \in b..(Len(s) - 1) : ~IsNameCharKw(At(s, j)) }
                   \cup { Len(s) }), LAMBDA e :
           Let(SkipSpaceFrom(s, e), LAMBDA q :
             IF q < Len(s) /\ At(s, q) = "="
               THEN Let(SubValues(s, q + 1), LAMBDA v :
                      << << Sub(s, b, e), Strip(v[1]) >> >>
                        \o FieldsInOrder(s, v[2]))
             ELSE FieldsInOrder(s,
                    Min({ j + 1 : j \in { k \in q..(Len(s) - 1) : At(s, k) = "," } }
                          \cup { Len(s) })))))

\* the names and values of the fields that parse_fields returned
NamesAndValues(fields) ==
  [f \in 1..Len(fields) |-> << fields[f][1], fields[f][2] >>]

\* C18: parse_fields returns the fields of the record body in source order:
\* separators are skipped, a name is made of letters, digits, "_", "-" and
\* ":", a token that no "=" follows is skipped up to and including the next
\* comma and makes no field, and a token that "=" follows makes exactly one
\* field, whose value is the concatenation of the sub-values joined by "#".
C18_FieldsInSourceOrder ==
  Called("parse_fields") => NamesAndValues(Result) = FieldsInOrder(arg, 0)

\* the decoded text v holds a brace, or a quote that no backslash escapes
HasDelimiter(v) ==
  \E k \in 0..(Len(v) - 1) :
    \/ At(v, k) \in { "{", "}" }
    \/ At(v, k) = "\"" /\ BackslashesBefore(v, -1, k) % 2 = 0

\* C19: every decoded value that read_value returns (the value of every
\* field of parse_fields) is free of structural delimiters: it holds no "{",
\* no "}" and no unescaped quote.
C19_NoDelimiterLeft ==
  Called("read_value") => ~HasDelimiter(Result[1])

\* the value of the first field of the record fs whose name is field in any
\* case, None when the record has no such field
FirstOccurrence(fs, field) ==
  Let(First({ k \in 1..Len(fs) : Lower(fs[k][1]) = field }), LAMBDA k :
    IF k = 0 THEN None ELSE fs[k][4])

\* C20: the field query returns the value of the first occurrence of the
\* field in source order, whatever the case of its name and whether it is
\* brace- or quote-delimited, and None (no entry of the dictionary) when the
\* record has no such field; a later duplicate never determines the result.
C20_FirstOccurrenceWins ==
  /\ Called("get_field") => Result = FirstOccurrence(arg, Offset)
  /\ Called("extract_all_fields")
       => \A field \in QueryNames : Get(Result, field) = FirstOccurrence(arg, field)

\* the record r has a field line whose name is name in any case
HasLine(r, name) ==
  \E k \in 1..Len(r.lines) : Lower(r.lines[k][2]) = Lower(name)

\* how many lines of the text s, split at "\n", start with white space
\* followed by name in any case and "="
FieldCount(s, name) ==
  Cardinality({ k \in 1..Len(s) :
                  /\ MatchAtI(s, name, k)
                  /\ AtLineStart(s, k)
                  /\ SkipSpace(s, k + Len(name)) <= Len(s)
                  /\ s[SkipSpace(s, k + Len(name))] = "=" })

\* append_fields added a field named name to the record arg
Appended(name) == FieldCount(Result, name) > FieldCount(AugText(arg), name)

\* C21: append_fields adds a source field only when the record has no field
\* named source (in any case) and an actualSearch field only when the record
\* has no field named actualSearch, so that it never makes a second field of
\* an appended name.
C21_AppendedOnlyIfMissing ==
  Called("append_fields")
    => \A name \in { << "s","o","u","r","c","e" >>,
                      << "a","c","t","u","a","l","S","e","a","r","c","h" >> } :
         Appended(name) => ~HasLine(arg, name)

\* the record r is a comment, preamble or string block
IsBlock(r) ==
  Lower(r.type) \in { << "c","o","m","m","e","n","t" >>,
                      << "p","r","e","a","m","b","l","e" >>,
                      << "s","t","r","i","n","g" >> }

\* the lines of the text s that hold a "="
FieldLines(s) == SelectSeq(SplitLines(s), LAMBDA l : FindChar(l, "=", 1) # 0)

\* the line l is the field line "type = {value}" behind the indent of one of
\* the field lines of the record r (no indent when it has none), with or
\* without a comma behind it
IsTypeLine(l, r, value) ==
  \E indent \in { r.lines[k][1] : k \in 1..Len(r.lines) }
                  \cup (IF r.lines = << >> THEN { << >> } ELSE {}) :
    \E comma \in { << >>, << "," >> } :
      l = indent \o << "t","y","p","e"," ","="," ","{" >> \o value \o << "}" >> \o comma

\* C22: process_text_add_type returns a record unchanged, with no change
\* counted, when it has a field named type (in any case) or is a comment,
\* preamble or string block; otherwise it returns the record with exactly one
\* new field line, "type = {value}" behind the indent of the existing
\* fields, the other field lines as they were, and counts one change.
C22_TypeInjectedOnce ==
  Called("process_text_add_type")
    => IF IsBlock(arg) \/ HasLine(arg, << "t","y","p","e" >>)
         THEN Result = << AugText(arg), 0 >>
         ELSE /\ Result[2] = 1
              /\ \E k \in 1..Len(FieldLines(Result[1])) :
                   /\ IsTypeLine(FieldLines(Result[1])[k], arg,
                                 derive_type_value(arg.type))
                   /\ FieldLines(AugText(arg))
                        = [j \in 1..(Len(FieldLines(Result[1])) - 1) |->
                             FieldLines(Result[1])[IF j < k THEN j ELSE j + 1]]

\* the text out is the text in with one block inserted between the first p
\* characters and the rest
InsertedAt(in, out, p) ==
  /\ Len(out) >= Len(in)
  /\ SubSeq(out, 1, p) = SubSeq(in, 1, p)
  /\ SubSeq(out, p + 1 + Len(out) - Len(in), Len(out)) = SubSeq(in, p + 1, Len(in))

\* the text that append_fields or insert_type_field returned
Augmented == Called("append_fields") \/ Called("insert_type_field")

InsertedBlock ==
  SubSeq(Result, Len(AugText(arg)), Len(Result) - 1)

\* the indents that occur most often among the field lines of the record r
MajorityIndents(r) ==
  { r.lines[k][1] : k \in { i \in 1..Len(r.lines) :
      \A j \in 1..Len(r.lines) :
        Cardinality({ q \in 1..Len(r.lines) : r.lines[q][1] = r.lines[j][1] })
          <= Cardinality({ q \in 1..Len(r.lines) : r.lines[q][1] = r.lines[i][1] }) } }

\* every line terminator of the text s is the terminator nl: every "\n" of
\* s has a "\r" before it exactly when nl is CRLF, and s ends with one
TerminatedBy(s, nl) ==
  /\ s # << >>
  /\ s[Len(s)] = "\n"
  /\ \A k \in 1..Len(s) :
       s[k] = "\n" => ((k > 1 /\ s[k - 1] = "\r") <=> nl = CRLF)

\* C24: the field lines that append_fields inserts end with the line
\* terminator of the lines of the record (CRLF in a record whose lines end
\* in CRLF, LF in one whose lines end in LF) and start with the indent that
\* most of the field lines of the record have.
C24_TerminatorAndIndentKept ==
  Called("append_fields")
    => /\ TerminatedBy(InsertedBlock, arg.nl)
       /\ arg.lines # << >>
            => \E indent \in MajorityIndents(arg) :
                 \A l \in 1..Len(SplitLines(InsertedBlock)) :
                   LeadingSpace(SplitLines(InsertedBlock)[l]) = indent

\* the kept items that were processed before the item x
KeptBefore(x) == { y \in Items : y.kept /\ Before(y.pos, x.pos) }

\* the texts of the kept items in processing order
KeptTexts ==
  [n \in 1..Cardinality({ x \in Items : x.kept }) |->
     (CHOOSE x \in Items : x.kept /\ Cardinality(KeptBefore(x)) = n - 1).entry_text]

\* the texts, a blank line between two of them and a newline at the end
Written(texts) ==
  IF texts = << >> THEN << "\n" >>
  ELSE Let(Concat([n \in 1..Len(texts) |-> texts[n] \o << "\n", "\n" >>]),
           LAMBDA all : SubSeq(all, 1, Len(all) - 1))

\* C25: at every moment of the pass merged_entries holds exactly the kept
\* records, each once, in processing order, and every item of groups carries
\* its kept status and the strategy and key of its bucket, whose list is in
\* arrival order with the kept record first; when the pass has ended, every
\* tokenized record has its item and the merged file holds the kept records.
C25_MergedOutputAndBuckets ==
  pc \in { "process", "done" } =>
    /\ merged_entries = KeptTexts
    /\ \A x \in Items : \A y \in Items : x.pos = y.pos => x = y
    /\ \A k \in DOMAIN groups :
         /\ groups[k][1].kept
         /\ \A i \in 1..Len(groups[k]) :
              /\ << groups[k][i].strategy, groups[k][i].key >> = k
              /\ groups[k][i].entry_text
                   = append_fields(Raw(groups[k][i]), groups[k][i].actualSearch,
                                   split_filename_parts(
                                     bib_files[groups[k][i].pos[1]])[2])
              /\ \A j \in 1..Len(groups[k]) :
                   i < j => /\ Before(groups[k][i].pos, groups[k][j].pos)
                            /\ ~groups[k][j].kept
    /\ pc = "done" =>
         /\ { x.pos : x \in Items } = Tokenized
         /\ merged_file = Written(KeptTexts)

C25_Witness ==
  /\ pc = "done"
  /\ Len(merged_entries) = 2
  /\ \E k \in DOMAIN groups :
       /\ Len(groups[k]) = 2
       /\ groups[k][1].pos[1] # groups[k][2].pos[1]

\* a tokenizer is scanning the text arg
Scanning == pc \in { "extract_bibtex_entries", "extract_entries" }

\* C26: in extract_bibtex_entries and in extract_entries every iteration of
\* the loop, after a returned record as after an abandoned unbalanced
\* candidate, leaves the scan offset greater than it was and not behind the
\* end of the text, so that the scan ends: the function returns, and what it
\* returns is a finite sequence, with no more entries than the text has
\* characters.
C26_ScanTerminates ==
  /\ [](Scanning =>
          /\ \A n \in 1..(Len(results) - 1) : results[n][1] < results[n + 1][1]
          /\ LoopState[1] <= Len(arg)
          /\ Len(LoopState[2]) <= Len(arg))
  /\ <>(pc = "return")

C26_Witness ==
  /\ pc = "return"
  /\ Len(results) = 4
  /\ Len(LoopState[2]) = 1
  /\ LoopState[2][1][1] = << "b", "-", "c" >>

\* what main of Screening.py has written when it has returned
Summary == results[Len(results)]

\* the filters that do not return true for the entry e, and whether e has
\* no language
Verdict(e) ==
  Let(extract_all_fields(e[1]), LAMBDA fields :
    [raw |-> e[1],
     failed |-> { k \in 1..Len(active_filters) :
                    ~CallFilter(active_filters[k], e[2], fields, e[1]) },
     no_language |->
       Strip(GetOr(fields, << "l","a","n","g","u","a","g","e" >>, << >>)) = << >>])

\* the verdicts of the entries of the input file, in file order
Verdicts ==
  Let(iter_entries_with_raw(Content), LAMBDA entries :
    SelectSeq([n \in 1..Len(entries) |-> Verdict(entries[n])], LAMBDA v : TRUE))

\* the number of entries in the report of bucket b, 0 when none is written
ReportCount(b) ==
  IF \E r \in Summary.reports : r[1] = b
    THEN (CHOOSE r \in Summary.reports : r[1] = b)[2]
    ELSE 0

\* what the pass must have written for entries with the verdicts vs: the
\* kept output holds the entries that pass every filter, every other entry
\* is counted in the report of the first filter that it fails, the language
\* report lists the kept entries without a language as well
WrittenFor(vs) ==
  /\ Summary.output_file
       = JoinLines(SelectSeq([n \in 1..Len(vs) |->
                                IF vs[n].failed = {}
                                  THEN WithLineFeed(vs[n].raw) ELSE << >>],
                             LAMBDA t : t # << >>))
  /\ Summary.total = Len(vs)
  /\ Summary.kept = Cardinality({ n \in 1..Len(vs) : vs[n].failed = {} })
  /\ Summary.total = Summary.kept + Summary.total_removed
  /\ \A b \in { active_filters[k].bucket : k \in 1..Len(active_filters) } :
       ReportCount(b)
         = Cardinality({ n \in 1..Len(vs) :
                           \/ /\ vs[n].failed # {}
                              /\ active_filters[Min(vs[n].failed)].bucket = b
                           \/ /\ vs[n].failed = {}
                              /\ vs[n].no_language
                              /\ b = "language" })

\* C27: for every input file the screening pass ends with a kept output that
\* holds exactly the entries for which every active filter returns true;
\* every other entry is in the report of exactly one bucket, the bucket of
\* the first filter in list order that did not return true; and total =
\* kept + removed.
C27_KeptOrFirstFailedBucket ==
  pc \in { "return", "raise" } => pc = "return" /\ WrittenFor(Verdicts)

\* C28: two records with the same text, in whatever files they occur, get
\* the same strategy and key, so the one processed later is dropped as a
\* duplicate; the key does not depend on the source and actualSearch fields
\* that append_fields derives from the file name.
C28_SameTextSameKey ==
  \A x, y \in Items :
    Raw(x) = Raw(y)
      => /\ x.strategy = y.strategy
         /\ x.key = y.key
         /\ Before(x.pos, y.pos) => ~y.kept

\* the normalized text of the key <<strategy, key>>: the key itself, for
\* TITLE_YEAR what stands before "::"
NormalizedText(sk) ==
  IF sk[1] = "TITLE_YEAR"
    THEN SubSeq(sk[2], 1,
                Min({ p \in 1..Len(sk[2]) : MatchAt(sk[2], << ":", ":" >>, p) }) - 1)
    ELSE sk[2]

\* C29: the normalized text of a key that build_dedupe_key returns under the
\* DOI, TITLE_YEAR, TITLE or ABSTRACT strategy is never empty: a title or
\* abstract that normalizes to the empty string is not used as a key.
C29_NoEmptyNormalizedText ==
  pc = "return" /\ results[1][1] # "FALLBACK"
    => NormalizedText(results[1]) # << >>

\* the text of the record at p with the fields of its file appended
UpdatedAt(p) ==
  append_fields(raw_entries_per_file[bib_files[p[1]]][p[2]],
                split_filename_parts(bib_files[p[1]])[1],
                split_filename_parts(bib_files[p[1]])[2])

\* the strategy and key of the record at p
KeyAt(p) == build_dedupe_key(UpdatedAt(p))

\* the place of the record at p in the processing order
PlaceInOrder(p) == CHOOSE n \in 1..Len(results) : results[n] = p

\* C30: whatever the order is in which the records are processed, the pass
\* ends with the same buckets (one for every key of a record), each with
\* the same members (the records of that key, each once, with the same
\* item data), and with the same numbers of kept and removed records (the
\* number of buckets, and the rest); the order decides only which member of
\* a bucket is marked kept: the one processed first.
C30_OrderOnlyChoosesKept ==
  pc = "done" =>
    /\ DOMAIN groups = { KeyAt(p) : p \in Tokenized }
    /\ \A k \in DOMAIN groups :
         /\ { groups[k][i].pos : i \in 1..Len(groups[k]) }
              = { p \in Tokenized : KeyAt(p) = k }
         /\ \A i, j \in 1..Len(groups[k]) :
              i # j => groups[k][i].pos # groups[k][j].pos
         /\ \A i \in 1..Len(groups[k]) :
              /\ groups[k][i]
                   = Item(UpdatedAt(groups[k][i].pos), k, groups[k][i].kept,
                          bib_files[groups[k][i].pos[1]],
                          split_filename_parts(bib_files[groups[k][i].pos[1]]),
                          groups[k][i].pos)
              /\ groups[k][i].kept
                   <=> \A j \in 1..Len(groups[k]) :
                         PlaceInOrder(groups[k][i].pos)
                           <= PlaceInOrder(groups[k][j].pos)
    /\ total_after = Cardinality(DOMAIN groups)
    /\ removed = total_before - Cardinality(DOMAIN groups)

\* the pass has ended after an order in which a record of the second file
\* was processed before a record of the first file with the same key: the
\* record of the second file is the kept one
C30_Witness ==
  /\ pc = "done"
  /\ \E k \in DOMAIN groups :
       /\ Len(groups[k]) >= 2
       /\ Before(groups[k][2].pos, groups[k][1].pos)
       /\ groups[k][1].pos[1] # groups[k][2].pos[1]
       /\ groups[k][1].kept /\ ~groups[k][2].kept
====
